---- MODULE Spec2Model ----
(***************************************************************************)
(* Job state machine of the transformation Orchestrator                    *)
(* (src/src/agents/orchestrator.py).  One TransformationJob object is      *)
(* driven by run_job / answer_question / select_table; get_job replaces    *)
(* the in-memory object by the one rebuilt from the job store.             *)
(*                                                                         *)
(* Every assignment to job.status is a step of its own, so that the order  *)
(* of the statuses a job goes through is visible.  The agents (detector,   *)
(* matcher, analyst, planner, engine, validator, code generator, script)   *)
(* are the environment: each stage step chooses their outcome.             *)
(* Console output is not modelled: every stage wraps its body in           *)
(* try/except Exception, so the outer handler of run_job (lines 220-222)   *)
(* is reached only when a print fails.                                     *)
(***************************************************************************)
EXTENDS Integers, Sequences, FiniteSets, TLC

\* ---------------------------------------------------------------- bounds
MaxTables == 2
MaxQuestions == 2
\* number of calls the host makes on the job
MaxCalls == 2
\* number of jobs run on one Orchestrator
MaxJobs == 2
\* number of transformations and column mappings of a plan, together
MaxPlanSteps == 3
\* number of columns of a source schema and of a target schema
MaxColumns == 2
\* number of rows of a sheet
MaxRows == 6
\* number of characters of a text passed to a string function
MaxLen == 4

\* ------------------------------------------------------ program constants
MaxRetries == 3
HighMatchThreshold == 70
LowConfidenceThreshold == 50

\* Python None, for the fields that hold a string
None == "None"
\* an Optional object field is <<>> for None and <<x>> for the object x
Absent == <<>>
Some(x) == <<x>>

\* JobStatus values
PENDING == "pending"
DETECTING_TABLES == "detecting_tables"
SELECTING_TABLE == "selecting_table"
ANALYZING == "analyzing"
PLANNING == "planning"
WAITING_FOR_INPUT == "waiting_for_input"
EXECUTING == "executing"
VALIDATING == "validating"
COMPLETED == "completed"
FAILED == "failed"

JobStatus ==
  {PENDING, DETECTING_TABLES, SELECTING_TABLE, ANALYZING, PLANNING,
   WAITING_FOR_INPUT, EXECUTING, VALIDATING, COMPLETED, FAILED}

\* error_message texts (the exception text after the prefix is left out)
ErrDetect == "Table detection failed"
ErrNoTables == "No suitable tables found in file"
ErrAnalysis == "Analysis failed"
ErrPlanning == "Planning failed"
ErrExecution == "Execution failed"
ErrFallback == "Fallback failed"
ErrNoOutput == "Script ran but output file not found at expected location"
ErrValidation == "Validation/Output failed"
ErrNoSelection == "No tables detected for selection"

\* output_file values
FallbackOutput == "schema_fallback.xlsx"
TransformedOutput == "source_transformed_job.xlsx"

\* output_dir / f"{target_schema.name}_fallback.xlsx"
expected_output(schema_name) ==
  IF schema_name = "generic_customer" THEN FallbackOutput
  ELSE "tally_customer_fallback.xlsx"

\* f"{source_name}_transformed_{job.job_id}.xlsx", one per job id
output_filename(job_id) ==
  <<"source_transformed_job1.xlsx", "source_transformed_job2.xlsx",
    "source_transformed_job3.xlsx">>[job_id]

\* ------------------------------------------------------ environment data
\* table ids as the detector assigns them: table_001, table_002, ...
TableIds == <<"table_001", "table_002", "table_003", "table_004">>

\* match scores and plan confidences, in percent
Scores == {30, 70, 90}
Confidences == {30, 50}

Questions == {"q1", "q2"}
\* answers to questions; an answer to the table prompt is a selection
Answers == {"2", "nope"}
\* selections: ordinals (0 is below every table), a table id, something else
Selections == {"0", "2", "table_001", "nope"}
SchemaNames == {"generic_customer", "unknown_schema"}

SeqsUpTo(S, n) == UNION {[1..k -> S] : k \in 0..n}

\* the plans _parse_plan can build: the three fields the Orchestrator reads;
\* user_questions is read only when requires_user_input is set, and is kept
\* empty otherwise
Plans ==
  {p \in [confidence_score : Confidences,
          requires_user_input : BOOLEAN,
          user_questions : SeqsUpTo(Questions, MaxQuestions)] :
     p.requires_user_input \/ p.user_questions = <<>>}

\* get_schema: None for a name that is not registered
RegisteredSchemas == {"generic_customer", "tally_customer"}
get_schema(name) == IF name \in RegisteredSchemas THEN name ELSE None

\* int(selection): ParsesAsInt is FALSE where int() raises ValueError
DigitStrings == <<"0", "1", "2", "3", "4", "5">>
ParsesAsInt(s) == \E i \in 1..Len(DigitStrings) : DigitStrings[i] = s
ParseInt(s) == (CHOOSE i \in 1..Len(DigitStrings) : DigitStrings[i] = s) - 1

\* matches.sort(key=match_score, reverse=True): stable, best score first
RECURSIVE SortMatches(_)
SortMatches(ms) ==
  IF ms = <<>> THEN <<>>
  ELSE LET best == CHOOSE i \in 1..Len(ms) :
                     /\ \A j \in 1..Len(ms) : ms[j].match_score <= ms[i].match_score
                     /\ \A j \in 1..(i-1) : ms[j].match_score < ms[i].match_score
           rest == [k \in 1..(Len(ms)-1) |-> IF k < best THEN ms[k] ELSE ms[k+1]]
       IN <<ms[best]>> \o SortMatches(rest)

\* TableMatchingAgent.run on the detected tables, scores[i] the score of table i
SelectionPrompt == "Multiple tables match the target schema. Please select one:"
DefaultPrompt == "Which table do you want to transform?"

MatcherRun(tables, scores) ==
  LET matches == SortMatches([i \in 1..Len(tables) |->
                     [table_id |-> tables[i], match_score |-> scores[i]]])
      good == SelectSeq(matches, LAMBDA m : m.match_score >= HighMatchThreshold)
  IN [matches |-> matches,
      best_match_table_id |-> IF matches # <<>> THEN matches[1].table_id ELSE None,
      user_prompt |-> IF Len(good) > 1 THEN SelectionPrompt ELSE None]

\* TableMatchingResult.get_good_matches
get_good_matches(result) ==
  SelectSeq(result.matches, LAMBDA m : m.match_score >= HighMatchThreshold)

\* MultiTableAnalysis.get_table_by_id
get_table_by_id(tables, id) ==
  IF \E i \in 1..Len(tables) : tables[i] = id THEN id ELSE None

\* ------------------------------------------------------------- the job
\* TransformationJob.__init__
NewJob(schema) ==
  [target_schema_name |-> schema,
   status |-> PENDING,
   source_analysis |-> None,
   transformation_plan |-> Absent,
   validation_report |-> None,
   output_file |-> None,
   pending_questions |-> <<>>,
   user_answers |-> {},
   multi_table_analysis |-> Absent,
   table_matching_result |-> Absent,
   selected_table_id |-> None,
   error_message |-> None,
   retry_count |-> 0,
   max_retries |-> MaxRetries,
   selected_table_df |-> None,
   result_df |-> None]

\* TransformationJob.to_dict: the fields written to the job file
to_dict(j) ==
  [target_schema_name |-> j.target_schema_name,
   status |-> j.status,
   source_analysis |-> j.source_analysis,
   transformation_plan |-> j.transformation_plan,
   validation_report |-> j.validation_report,
   output_file |-> j.output_file,
   pending_questions |-> j.pending_questions,
   user_answers |-> j.user_answers,
   error_message |-> j.error_message,
   retry_count |-> j.retry_count]

\* TransformationJob.from_dict: a new job, then the fields it restores
from_dict(d) ==
  [NewJob(d.target_schema_name) EXCEPT
     !.status = d.status,
     !.output_file = d.output_file,
     !.pending_questions = d.pending_questions,
     !.user_answers = d.user_answers,
     !.error_message = d.error_message,
     !.retry_count = d.retry_count,
     !.validation_report = d.validation_report,
     !.transformation_plan = d.transformation_plan]

\* user_answers is a dict question -> answer, kept as a set of <<q, a>> pairs
\* job.user_answers[question] = answer
DictSet(d, q, a) == {p \in d : p[1] # q} \cup {<<q, a>>}

VARIABLES
  job,          \* the TransformationJob object the caller holds
  stored,       \* the job file jobs_dir/<job_id>.json
  pc,           \* position inside the running call, "idle" between calls
  caller,       \* the public method called last
  entry_status, \* job.status when that call was made
  obs,          \* what happened during that call
  calls         \* number of calls made so far

\* several jobs run on one Orchestrator, from the planning failure on
VARIABLES
  jobs,         \* job_id -> the TransformationJob object
  run,          \* job_id -> position of its run_job call
  script,       \* job_id -> what the generated script fallback_<job_id>.py does
  output_dir    \* the files of settings.output_dir: <<path, written by job_id>>

\* the ExecutionEngine, run on one (table, plan) pair
VARIABLES
  table,        \* the DataFrame passed to execute
  plan,         \* the TransformationPlan passed to execute
  engines,      \* ExecutionEngine instance -> its errors and warnings
  clock,        \* number of execute calls made so far
  outputs       \* what the execute calls returned, in call order

\* the TransformationPlannerAgent, run on one pair of schemas
VARIABLES
  source_schema,  \* the column names of the SourceSchemaAnalysis
  target_schema,  \* the columns of the TargetSchema
  planned         \* Absent, or what run did

\* the TableMatchingAgent, matching one detected table to one schema
VARIABLES
  match_schema,    \* the TargetSchema
  column_names,    \* DetectedTable.column_names
  cursor,          \* the source column the first pass is at
  matched_columns, \* the (source_col, target) pairs appended so far
  table_match      \* Absent, or the TableMatch returned

\* the TableDetectionAgent, run on one sheet
VARIABLES
  sheet,           \* the raw sheet _load_raw_sheet returned
  detection        \* Absent, or what run found

\* the FunctionRegistry, called once
VARIABLES
  call,            \* the name and the value passed to execute
  outcome          \* Absent, or what execute did

shared_jobs == <<jobs, run, script, output_dir>>
engine == <<table, plan, engines, clock, outputs>>
planner == <<source_schema, target_schema, planned>>
matcher == <<match_schema, column_names, cursor, matched_columns, table_match>>
detector == <<sheet, detection>>
registry == <<call, outcome>>
agents == <<matcher, detector, registry>>
others == <<shared_jobs, engine, planner, agents>>

vars == <<job, stored, pc, caller, entry_status, obs, calls, others>>

\* no other job is run
JobsIdle ==
  /\ jobs = <<>>
  /\ run = <<>>
  /\ script = <<>>
  /\ output_dir = {}

\* pd.DataFrame(): no column, no row
NewFrame == [index |-> 0, columns |-> <<>>]

\* TransformationPlan with its list fields at their defaults
NoPlan == [transformations |-> <<>>, enrichments |-> <<>>, column_mappings |-> <<>>]

\* execute is not called
EngineIdle ==
  /\ table = NewFrame
  /\ plan = NoPlan
  /\ engines = <<>>
  /\ clock = 0
  /\ outputs = <<>>

\* the planner is not called
PlannerIdle ==
  /\ source_schema = <<>>
  /\ target_schema = <<>>
  /\ planned = Absent

\* the matcher is not called
MatcherIdle ==
  /\ match_schema = [columns |-> <<>>, required_columns |-> <<>>]
  /\ column_names = <<>>
  /\ cursor = 0
  /\ matched_columns = <<>>
  /\ table_match = Absent

\* the detector is not called
DetectorIdle ==
  /\ sheet = <<>>
  /\ detection = Absent

\* the registry is not called
RegistryIdle ==
  /\ call = [name |-> "", value |-> [null |-> TRUE, text |-> <<>>]]
  /\ outcome = Absent

AgentsIdle == MatcherIdle /\ DetectorIdle /\ RegistryIdle

OthersIdle == JobsIdle /\ EngineIdle /\ PlannerIdle /\ AgentsIdle

NewObs(j) ==
  [planning |-> "not_run",
   attempts |-> 0,
   retry_at_entry |-> j.retry_count,
   fallback |-> "not_run",
   detection |-> "not_run",
   validation |-> "not_run",
   selection |-> None]

\* create_job: a PENDING job, saved
Init ==
  /\ \E schema \in SchemaNames : job = NewJob(schema)
  /\ stored = to_dict(job)
  /\ pc = "idle"
  /\ caller = "create_job"
  /\ entry_status = PENDING
  /\ obs = NewObs(job)
  /\ calls = 0
  /\ OthersIdle

\* run_job lines 184-194: stage 0 only if detection was not done yet
RunJobEntry(j) ==
  IF j.multi_table_analysis = Absent THEN "stage_detect_tables" ELSE "stage_analyze"

\* a call of a public method; selection is the argument select_table receives
CalledWithin(op, selection, limit) ==
  /\ calls < limit
  /\ calls' = calls + 1
  /\ caller' = op
  /\ entry_status' = job.status
  /\ obs' = [NewObs(job) EXCEPT !.selection = selection]
  /\ UNCHANGED others

CalledWith(op, selection) == CalledWithin(op, selection, MaxCalls)

Called(op) == CalledWith(op, None)

Internal == UNCHANGED <<stored, caller, entry_status, calls, others>>

\* run_job(job), called by the host
RunJob ==
  /\ pc = "idle"
  /\ Called("run_job")
  /\ pc' = RunJobEntry(job)
  /\ UNCHANGED <<job, stored>>

\* _stage_detect_tables lines 298-299
StageDetectTablesBegin ==
  /\ pc = "stage_detect_tables"
  /\ job' = [job EXCEPT !.status = DETECTING_TABLES]
  /\ pc' = "detect_tables"
  /\ UNCHANGED obs
  /\ Internal

\* AfterMatching selecting the best good match instead of asking
AfterMatching_NeverAsks(j, result) ==
  LET good_matches == get_good_matches(result)
  IN IF Len(good_matches) >= 1
       THEN [j EXCEPT !.table_matching_result = Some(result),
                      !.selected_table_id = good_matches[1].table_id]
     ELSE IF result.best_match_table_id # None
       THEN [j EXCEPT !.table_matching_result = Some(result),
                      !.selected_table_id = result.best_match_table_id]
     ELSE [j EXCEPT !.table_matching_result = Some(result),
                    !.status = FAILED,
                    !.error_message = ErrNoTables]

\* _stage_detect_tables lines 318-343, once the detector returned several
\* (or no) tables and the matcher returned result
AfterMatching(j, result) ==
  LET good_matches == get_good_matches(result)
  IN IF Len(good_matches) = 1
       THEN [j EXCEPT !.table_matching_result = Some(result),
                      !.selected_table_id = good_matches[1].table_id]
     ELSE IF Len(good_matches) > 1
       THEN [j EXCEPT !.table_matching_result = Some(result),
                      !.status = SELECTING_TABLE,
                      !.pending_questions =
                         <<IF result.user_prompt # None
                           THEN result.user_prompt ELSE DefaultPrompt>>]
     ELSE IF result.best_match_table_id # None
       THEN [j EXCEPT !.table_matching_result = Some(result),
                      !.selected_table_id = result.best_match_table_id]
     ELSE [j EXCEPT !.table_matching_result = Some(result),
                    !.status = FAILED,
                    !.error_message = ErrNoTables]

\* run_job lines 188-194 after stage 0
AfterDetect(j) ==
  IF j.status \in {FAILED, SELECTING_TABLE} THEN "idle" ELSE "stage_analyze"

\* _stage_detect_tables lines 301-351 and the return into run_job
DetectTables ==
  /\ pc = "detect_tables"
  /\ \/ \* the detector raises
        /\ job' = [job EXCEPT !.status = FAILED, !.error_message = ErrDetect]
        /\ obs' = [obs EXCEPT !.detection = "raised"]
     \/ \E n \in 0..MaxTables :
          LET tables == SubSeq(TableIds, 1, n)
              detected == [job EXCEPT !.multi_table_analysis = Some(tables)]
          IN IF n = 1
             THEN /\ job' = [detected EXCEPT !.selected_table_id = tables[1]]
                  /\ obs' = [obs EXCEPT !.detection = "returned"]
             ELSE \/ \* the matcher raises
                     /\ job' = [detected EXCEPT !.status = FAILED,
                                                !.error_message = ErrDetect]
                     /\ obs' = [obs EXCEPT !.detection = "raised"]
                  \/ \E scores \in [1..n -> Scores] :
                       /\ job' = AfterMatching(detected,
                                               MatcherRun(tables, scores))
                       /\ obs' = [obs EXCEPT !.detection = "returned"]
  /\ pc' = AfterDetect(job')
  /\ Internal

\* _stage_analyze lines 356-357
StageAnalyzeBegin ==
  /\ pc = "stage_analyze"
  /\ job' = [job EXCEPT !.status = ANALYZING]
  /\ pc' = "analyze"
  /\ UNCHANGED obs
  /\ Internal

\* _stage_analyze line 361-364: is a detected table to be extracted
HasSelectedTable(j) ==
  /\ j.selected_table_id # None
  /\ j.multi_table_analysis # Absent
  /\ get_table_by_id(j.multi_table_analysis[1], j.selected_table_id) # None

\* _stage_analyze lines 359-398 and run_job lines 195-196
Analyze ==
  /\ pc = "analyze"
  /\ \/ \* the loader raises, or the analyst raises with no table extracted
        /\ job' = [job EXCEPT !.status = FAILED, !.error_message = ErrAnalysis]
        /\ pc' = "idle"
     \/ \* the table is extracted, then the analyst raises
        /\ HasSelectedTable(job)
        /\ job' = [job EXCEPT !.selected_table_df = job.selected_table_id,
                              !.status = FAILED, !.error_message = ErrAnalysis]
        /\ pc' = "idle"
     \/ /\ job' = [job EXCEPT
                     !.selected_table_df =
                        IF HasSelectedTable(job) THEN job.selected_table_id ELSE @,
                     !.source_analysis = "analysis"]
        /\ pc' = "stage_plan"
  /\ UNCHANGED obs
  /\ Internal

\* _stage_plan lines 404-405
StagePlanBegin ==
  /\ pc = "stage_plan"
  /\ job' = [job EXCEPT !.status = PLANNING]
  /\ pc' = "plan"
  /\ UNCHANGED obs
  /\ Internal

\* run_job line 207
LowConfidence(j) ==
  /\ j.transformation_plan # Absent
  /\ j.transformation_plan[1].confidence_score < LowConfidenceThreshold

\* AfterPlan without the confidence gate of line 207
AfterPlan_NoConfidenceGate(j) ==
  IF j.status = WAITING_FOR_INPUT THEN "idle"
  ELSE IF j.status = FAILED THEN "stage_fallback_execution"
  ELSE "stage_execute"

\* AfterPlan returning the FAILED job instead of trying the fallback
AfterPlan_NoRescue(j) ==
  IF j.status = WAITING_FOR_INPUT THEN "idle"
  ELSE IF j.status = FAILED THEN "idle"
  ELSE IF LowConfidence(j) THEN "stage_fallback_execution"
  ELSE "stage_execute"

\* run_job lines 200-212 after stage 2
AfterPlan(j) ==
  IF j.status = WAITING_FOR_INPUT THEN "idle"
  ELSE IF j.status = FAILED THEN "stage_fallback_execution"
  ELSE IF LowConfidence(j) THEN "stage_fallback_execution"
  ELSE "stage_execute"

\* _stage_plan lines 407-433 and the return into run_job
Plan ==
  /\ pc = "plan"
  /\ \/ \* the planner raises
        /\ job' = [job EXCEPT !.status = FAILED, !.error_message = ErrPlanning]
        /\ obs' = [obs EXCEPT !.planning = "raised"]
     \/ \E p \in Plans :
          /\ job' = IF p.requires_user_input
                    THEN [job EXCEPT !.transformation_plan = Some(p),
                                     !.status = WAITING_FOR_INPUT,
                                     !.pending_questions = p.user_questions]
                    ELSE [job EXCEPT !.transformation_plan = Some(p)]
          /\ obs' = [obs EXCEPT !.planning = "returned"]
  /\ pc' = AfterPlan(job')
  /\ Internal

\* _stage_execute lines 438-439 (also re-entered by the retry at line 462)
StageExecuteBegin ==
  /\ pc = "stage_execute"
  /\ job' = [job EXCEPT !.status = EXECUTING]
  /\ pc' = "execute"
  /\ UNCHANGED obs
  /\ Internal

\* MayRetry allowing one retry too many
MayRetry_OffByOne(j) == j.retry_count <= j.max_retries

\* _stage_execute line 459: is another attempt allowed
MayRetry(j) == j.retry_count < j.max_retries

\* _stage_execute lines 441-468 and run_job lines 213-218: one attempt
Execute ==
  /\ pc = "execute"
  /\ obs' = [obs EXCEPT !.attempts = @ + 1]
  /\ \/ \* the engine returns a table
        /\ job' = [job EXCEPT !.result_df = "result"]
        /\ pc' = "stage_validate_and_output"
     \/ \* the loader or the engine raises
        IF MayRetry(job)
        THEN /\ job' = [job EXCEPT !.retry_count = @ + 1]
             /\ pc' = "stage_execute"
        ELSE /\ job' = [job EXCEPT !.status = FAILED,
                                   !.error_message = ErrExecution]
             /\ pc' = "stage_fallback_execution"
  /\ Internal

\* _stage_validate_and_output lines 473-474
StageValidateBegin ==
  /\ pc = "stage_validate_and_output"
  /\ job' = [job EXCEPT !.status = VALIDATING]
  /\ pc' = "validate_and_output"
  /\ obs' = [obs EXCEPT !.validation = "entered"]
  /\ Internal

\* AfterValidate handing a FAILED job to the fallback
AfterValidate_Rescue(j) ==
  IF j.status = FAILED THEN "stage_fallback_execution" ELSE "idle"

\* run_job lines 218-225 after stage 4: the job is saved and returned,
\* whatever its status
AfterValidate(j) == "idle"

\* _stage_validate_and_output lines 476-509, then run_job lines 224-225:
\* the only return of run_job that saves the job
ValidateAndOutput ==
  /\ pc = "validate_and_output"
  /\ \/ \* no result table, or the validator raises
        /\ job' = [job EXCEPT !.status = FAILED,
                              !.error_message = ErrValidation]
        /\ obs' = [obs EXCEPT !.validation = "raised"]
     \/ \* the report is built, then writing the output raises
        /\ job.result_df # None
        /\ job' = [job EXCEPT !.validation_report = "report",
                              !.status = FAILED,
                              !.error_message = ErrValidation]
        /\ obs' = [obs EXCEPT !.validation = "raised"]
     \/ /\ job.result_df # None
        /\ job' = [job EXCEPT !.validation_report = "report",
                              !.output_file = TransformedOutput,
                              !.status = COMPLETED]
        /\ obs' = [obs EXCEPT !.validation = "ok"]
  /\ stored' = to_dict(job')
  /\ pc' = AfterValidate(job')
  /\ UNCHANGED <<caller, entry_status, calls, others>>

\* _stage_fallback_execution lines 230-231
StageFallbackBegin ==
  /\ pc = "stage_fallback_execution"
  /\ job' = [job EXCEPT !.status = EXECUTING]
  /\ pc' = "fallback_execution"
  /\ UNCHANGED obs
  /\ Internal

\* _stage_fallback_execution lines 268-286: the job after the script ran
AfterScript(j, returncode, output_exists) ==
  IF returncode # 0
  THEN [j EXCEPT !.status = FAILED, !.error_message = ErrFallback]
  ELSE IF output_exists
  THEN [j EXCEPT !.output_file = expected_output(j.target_schema_name),
                 !.status = COMPLETED]
  ELSE [j EXCEPT !.status = COMPLETED, !.error_message = ErrNoOutput]

\* _stage_fallback_execution lines 233-293; run_job returns its result
\* as it is (lines 204, 209, 215), without saving
FallbackExecution ==
  /\ pc = "fallback_execution"
  /\ IF get_schema(job.target_schema_name) = None
     THEN /\ job' = [job EXCEPT !.status = FAILED, !.error_message = ErrFallback]
          /\ obs' = [obs EXCEPT !.fallback = "raised"]
     ELSE \/ \* the analyst (run when source_analysis is missing) raises
             /\ job.source_analysis = None
             /\ job' = [job EXCEPT !.status = FAILED,
                                   !.error_message = ErrFallback]
             /\ obs' = [obs EXCEPT !.fallback = "raised"]
          \/ \* the code generator or writing the script raises
             /\ job' = [job EXCEPT !.source_analysis = "analysis",
                                   !.status = FAILED,
                                   !.error_message = ErrFallback]
             /\ obs' = [obs EXCEPT !.fallback = "raised"]
          \/ \E returncode \in {0, 1}, output_exists \in BOOLEAN :
               /\ job' = AfterScript([job EXCEPT !.source_analysis = "analysis"],
                                     returncode, output_exists)
               /\ obs' = [obs EXCEPT !.fallback =
                            IF returncode # 0 THEN "script_failed"
                            ELSE IF output_exists THEN "ok" ELSE "no_output"]
  /\ pc' = "idle"
  /\ Internal

\* ParseSelection taking the number as a 0-indexed position
ParseSelection_ZeroIndexed(j, selection) ==
  LET tables == j.multi_table_analysis[1]
  IN IF ParsesAsInt(selection)
     THEN LET table_idx == ParseInt(selection)
          IN IF 0 <= table_idx /\ table_idx < Len(tables)
             THEN tables[table_idx + 1]
             ELSE j.selected_table_id
     ELSE IF \E i \in 1..Len(tables) : tables[i] = selection
          THEN selection
          ELSE j.selected_table_id

\* select_table lines 572-583: the selected_table_id after parsing selection
ParseSelection(j, selection) ==
  LET tables == j.multi_table_analysis[1]
  IN IF ParsesAsInt(selection)
     THEN LET table_idx == ParseInt(selection) - 1
          IN IF 0 <= table_idx /\ table_idx < Len(tables)
             THEN tables[table_idx + 1]
             ELSE j.selected_table_id
     ELSE IF \E i \in 1..Len(tables) : tables[i] = selection
          THEN selection
          ELSE j.selected_table_id

\* select_table lines 562-595: the job it leaves, and whether it resumes
SelectTableJob(j, selection) ==
  IF j.status # SELECTING_TABLE THEN j
  ELSE IF j.multi_table_analysis = Absent
    THEN [j EXCEPT !.status = FAILED, !.error_message = ErrNoSelection]
  ELSE IF ParseSelection(j, selection) = None THEN j
  ELSE [j EXCEPT !.selected_table_id = ParseSelection(j, selection),
                 !.pending_questions = <<>>]

SelectTableResumes(j, selection) ==
  /\ j.status = SELECTING_TABLE
  /\ j.multi_table_analysis # Absent
  /\ ParseSelection(j, selection) # None

\* select_table(job, selection), called by the host
SelectTable ==
  /\ pc = "idle"
  /\ \E selection \in Selections :
       /\ CalledWith("select_table", selection)
       /\ job' = SelectTableJob(job, selection)
       /\ pc' = IF SelectTableResumes(job, selection)
                THEN RunJobEntry(job') ELSE "idle"
  /\ UNCHANGED stored

\* answer_question lines 535-537: the answer is recorded under its question
RecordAnswer(j, question_index, answer) ==
  IF question_index < Len(j.pending_questions)
  THEN DictSet(j.user_answers, j.pending_questions[question_index + 1], answer)
  ELSE j.user_answers

\* answer_question line 540
AllAnswered(j, answers) == Cardinality(answers) >= Len(j.pending_questions)

\* answer_question(job, question_index, answer), called by the host, which
\* makes at most limit calls
AnswerQuestionWithin(limit) ==
  /\ pc = "idle"
  /\ \E question_index \in 0..MaxQuestions, answer \in Answers :
       IF job.status = SELECTING_TABLE
       THEN /\ CalledWithin("answer_question", answer, limit)
            /\ job' = SelectTableJob(job, answer)
            /\ pc' = IF SelectTableResumes(job, answer)
                     THEN RunJobEntry(job') ELSE "idle"
       ELSE IF job.status # WAITING_FOR_INPUT
       THEN /\ CalledWithin("answer_question", None, limit)
            /\ job' = job
            /\ pc' = "idle"
       ELSE LET answers == RecordAnswer(job, question_index, answer)
            IN /\ CalledWithin("answer_question", None, limit)
               /\ IF AllAnswered(job, answers)
                  THEN /\ job' = [job EXCEPT !.user_answers = answers,
                                             !.pending_questions = <<>>]
                       /\ pc' = RunJobEntry(job')
                  ELSE /\ job' = [job EXCEPT !.user_answers = answers]
                       /\ pc' = "idle"
  /\ UNCHANGED stored

AnswerQuestion == AnswerQuestionWithin(MaxCalls)

\* get_job(job_id): the host replaces its job by the one read from the store
GetJob ==
  /\ pc = "idle"
  /\ Called("get_job")
  /\ job' = from_dict(stored)
  /\ pc' = "idle"
  /\ UNCHANGED stored

Next ==
  \/ RunJob
  \/ AnswerQuestion
  \/ SelectTable
  \/ GetJob
  \/ StageDetectTablesBegin
  \/ DetectTables
  \/ StageAnalyzeBegin
  \/ Analyze
  \/ StagePlanBegin
  \/ Plan
  \/ StageExecuteBegin
  \/ Execute
  \/ StageValidateBegin
  \/ ValidateAndOutput
  \/ StageFallbackBegin
  \/ FallbackExecution

Spec == Init /\ [][Next]_vars

\* the host runs the job and answers its questions, with one more call left
\* for a second round of questions
AnswerQuestionRounds == AnswerQuestionWithin(MaxCalls + 1)

NextAnswers ==
  \/ RunJob
  \/ AnswerQuestionRounds
  \/ StageDetectTablesBegin
  \/ DetectTables
  \/ StageAnalyzeBegin
  \/ Analyze
  \/ StagePlanBegin
  \/ Plan
  \/ StageExecuteBegin
  \/ Execute
  \/ StageValidateBegin
  \/ ValidateAndOutput
  \/ StageFallbackBegin
  \/ FallbackExecution

SpecAnswers == Init /\ [][NextAnswers]_vars

\* ------------------------------------------- jobs sharing one Orchestrator
JobIds == 1..MaxJobs
NoScript == [returncode |-> 0, writes |-> FALSE, generated |-> FALSE]

\* the single-job variables, at rest
OrchestratorIdle ==
  /\ job = NewJob("generic_customer")
  /\ stored = to_dict(job)
  /\ pc = "idle"
  /\ caller = "create_job"
  /\ entry_status = PENDING
  /\ obs = NewObs(job)
  /\ calls = 0

orchestrator == <<job, stored, pc, caller, entry_status, obs, calls>>

\* create_job for each job id; run_job is about to be called on each
InitJobs ==
  /\ OrchestratorIdle
  /\ EngineIdle
  /\ PlannerIdle
  /\ AgentsIdle
  /\ jobs \in [JobIds -> {NewJob(schema) : schema \in RegisteredSchemas}]
  /\ run = [id \in JobIds |-> "created"]
  /\ script = [id \in JobIds |-> NoScript]
  /\ output_dir = {}

\* Path.exists()
Exists(dir, path) == \E f \in dir : f[1] = path

\* run_job lines 184-218 when every stage succeeds: the output is written
\* under the job's own file name (_stage_validate_and_output lines 489-500)
RunToOutput(id) ==
  /\ run[id] = "created"
  /\ jobs' = [jobs EXCEPT ![id] = [@ EXCEPT !.source_analysis = "analysis",
                                           !.result_df = "result",
                                           !.validation_report = "report",
                                           !.output_file = output_filename(id),
                                           !.status = COMPLETED]]
  /\ output_dir' = DictSet(output_dir, output_filename(id), id)
  /\ run' = [run EXCEPT ![id] = "done"]
  /\ UNCHANGED <<script, orchestrator, engine, planner, agents>>

\* run_job lines 184-204 when the planner raises: the fallback is next
RunToFallback(id) ==
  /\ run[id] = "created"
  /\ jobs' = [jobs EXCEPT ![id] = [@ EXCEPT !.source_analysis = "analysis",
                                           !.status = FAILED,
                                           !.error_message = ErrPlanning]]
  /\ run' = [run EXCEPT ![id] = "stage_fallback_execution"]
  /\ UNCHANGED <<script, output_dir, orchestrator, engine, planner, agents>>

\* _stage_fallback_execution lines 230-254: the script fallback_<job_id>.py
\* is generated and saved; what it will do is the code generator's choice
GenerateScript(id) ==
  /\ run[id] = "stage_fallback_execution"
  /\ jobs' = [jobs EXCEPT ![id] = [@ EXCEPT !.status = EXECUTING]]
  /\ \E returncode \in {0, 1}, writes \in BOOLEAN :
       script' = [script EXCEPT ![id] = [returncode |-> returncode,
                                         writes |-> writes,
                                         generated |-> TRUE]]
  /\ run' = [run EXCEPT ![id] = "script_saved"]
  /\ UNCHANGED <<output_dir, orchestrator, engine, planner, agents>>

\* _stage_fallback_execution lines 261-266: subprocess.run of the script,
\* which saves its result to output/<schema name>_fallback.xlsx or nowhere
RunScript(id) ==
  /\ run[id] = "script_saved"
  /\ output_dir' =
       IF script[id].writes
       THEN DictSet(output_dir, expected_output(jobs[id].target_schema_name), id)
       ELSE output_dir
  /\ run' = [run EXCEPT ![id] = "script_ran"]
  /\ UNCHANGED <<jobs, script, orchestrator, engine, planner, agents>>

\* _stage_fallback_execution lines 268-293: the exit code, then
\* expected_output.exists()
CheckOutput(id) ==
  /\ run[id] = "script_ran"
  /\ jobs' = [jobs EXCEPT ![id] =
        AfterScript(@, script[id].returncode,
                    Exists(output_dir, expected_output(@.target_schema_name)))]
  /\ run' = [run EXCEPT ![id] = "done"]
  /\ UNCHANGED <<script, output_dir, orchestrator, engine, planner, agents>>

NextJobs ==
  \E id \in JobIds :
    \/ RunToOutput(id)
    \/ RunToFallback(id)
    \/ GenerateScript(id)
    \/ RunScript(id)
    \/ CheckOutput(id)

\* run_job calls on different jobs, interleaved at every step
SpecJobs == InitJobs /\ [][NextJobs]_vars

TypeOK ==
  /\ job.status \in JobStatus
  /\ stored.status \in JobStatus
  /\ pc \in {"idle", "stage_detect_tables", "detect_tables", "stage_analyze",
             "analyze", "stage_plan", "plan", "stage_execute", "execute",
             "stage_validate_and_output", "validate_and_output",
             "stage_fallback_execution", "fallback_execution"}

\* -------------------------------------------------- the Execution Engine
\* A DataFrame is [index |-> number of rows, columns |-> the columns in
\* order, each [name, values]].  A missing value (None, NaN, NaT) is None.
ColumnNames(df) == {df.columns[i].name : i \in 1..Len(df.columns)}

\* df[col]
Series(df, col) ==
  df.columns[CHOOSE i \in 1..Len(df.columns) : df.columns[i].name = col].values

\* df[col] = values: an existing column is replaced in place, a new one is
\* appended; a frame without columns takes the index of the values
SetColumn(df, col, values) ==
  IF col \in ColumnNames(df)
  THEN [index |-> df.index,
        columns |-> [i \in 1..Len(df.columns) |->
                       IF df.columns[i].name = col
                       THEN [name |-> col, values |-> values]
                       ELSE df.columns[i]]]
  ELSE [index |-> IF df.columns = <<>> THEN Len(values) ELSE df.index,
        columns |-> Append(df.columns, [name |-> col, values |-> values])]

\* DataFrame.empty: any axis of length 0
empty(df) == df.index = 0 \/ df.columns = <<>>

\* the registered functions used here, of the 18 of _register_all_functions
RegisteredFunctions ==
  {"LOWERCASE", "SMART_DATE_PARSE", "LOOKUP_PINCODE", "COMPUTE_DATE_DIFF"}

\* datetime values: the time at which the k-th execute call runs
Times == <<"time_1", "time_2", "time_3">>

\* FunctionRegistry.lowercase
lowercase(value) ==
  IF value = None THEN ""
  ELSE IF value = "Acme" THEN "acme"
  ELSE value

\* dates written as "%Y-%m-%d", the first of the date_formats; the datetime
\* of such a day is written as the day
DateTexts == {"2024-01-01", "2024-01-05"}

\* FunctionRegistry.smart_date_parse: no strptime format matches "now", and
\* pd.to_datetime("now") is the current time; a datetime parses to itself;
\* a date parses to its day; text that is no date gives None
smart_date_parse(value, now) ==
  IF value = "now" THEN now
  ELSE IF \E i \in 1..Len(Times) : Times[i] = value THEN value
  ELSE IF value \in DateTexts THEN value
  ELSE None

\* (date1 - date2).days for two days of DateTexts, in decimal
day_of_month(date) == IF date = "2024-01-05" THEN 5 ELSE 1
days(date1, date2) ==
  LET n == day_of_month(date1) - day_of_month(date2)
  IN IF n = 0 THEN "0" ELSE IF n = 4 THEN "4" ELSE "-4"

\* transform.params without date2_col, and kwargs without row
NoParams == [date2_col |-> None]
NoRow == <<>>

\* FunctionRegistry.compute_date_diff lines 209-236: row maps the column
\* names to the cells of one row
compute_date_diff(value, params, values, row, now) ==
  IF value = None THEN None
  ELSE LET date2_col == params.date2_col
           date1 == smart_date_parse(value, now)
       IN IF date1 = None THEN None
          ELSE IF date2_col = None \/ date2_col \notin DOMAIN row
          THEN IF Len(values) >= 2
               THEN LET date2 == smart_date_parse(values[2], now)
                    IN IF date2 = None THEN None ELSE days(date1, date2)
               ELSE None
          ELSE LET date2 == smart_date_parse(row[date2_col], now)
               IN IF date2 = None THEN None ELSE days(date1, date2)

\* FunctionRegistry.lookup_pincode: none of the values here is in mock_data
lookup_pincode(value) ==
  IF value = None
  THEN [city |-> "", state |-> "", country |-> ""]
  ELSE [city |-> "", state |-> "", country |-> "India"]

\* FunctionRegistry.execute for the functions that return one value; values
\* and row are the keyword arguments
registry_execute(name, value, params, values, row, now) ==
  [raised |-> name \notin RegisteredFunctions,
   value |-> IF name = "LOWERCASE" THEN lowercase(value)
             ELSE IF name = "SMART_DATE_PARSE" THEN smart_date_parse(value, now)
             ELSE IF name = "COMPUTE_DATE_DIFF"
             THEN compute_date_diff(value, params, values, row, now)
             ELSE None]

\* Series.apply(lambda x: registry.execute(func_name, x, params)): raises when
\* a call raises; no call is made on a column without rows
apply(values, func_name, params, now) ==
  [raised |-> \E i \in 1..Len(values) :
                 registry_execute(func_name, values[i], params, <<>>, NoRow, now).raised,
   values |-> [i \in 1..Len(values) |->
                 registry_execute(func_name, values[i], params, <<>>, NoRow, now).value]]

\* row i of df, as df.apply(axis=1) passes it
Row(df, i) == [c \in ColumnNames(df) |-> Series(df, c)[i]]

\* [row[c] for c in transform.input_cols if c in row]
RowValues(df, i, input_cols) ==
  LET present == SelectSeq(input_cols, LAMBDA c : c \in ColumnNames(df))
  IN [k \in 1..Len(present) |-> Series(df, present[k])[i]]

\* df.apply(lambda row: registry.execute(func_name, None, params,
\* values=[...], row=row), axis=1) lines 122-131, on a table with rows
apply_rows(df, func_name, params, input_cols, now) ==
  LET results == [i \in 1..df.index |->
                    registry_execute(func_name, None, params,
                                     RowValues(df, i, input_cols), Row(df, i), now)]
  IN [raised |-> \E i \in 1..df.index : results[i].raised,
      values |-> [i \in 1..df.index |-> results[i].value]]

\* _apply_single_transformation for a function that returns one value: the
\* branch of input_col (lines 79, 98-117) and the branch of input_cols
\* (lines 119-131)
apply_single_transformation(df, transform, now) ==
  IF transform.input_col # None /\ transform.input_col \in ColumnNames(df)
  THEN LET input_col == transform.input_col
           output_col == IF transform.output_col # None
                         THEN transform.output_col ELSE input_col
           results == apply(Series(df, input_col), transform.function,
                            transform.params, now)
       IN IF results.raised
          THEN [raised |-> TRUE, df |-> df]
          ELSE [raised |-> FALSE, df |-> SetColumn(df, output_col, results.values)]
  ELSE IF transform.input_cols # <<>> /\ transform.output_col # None
  THEN LET results == apply_rows(df, transform.function, transform.params,
                                 transform.input_cols, now)
       IN IF results.raised
          THEN [raised |-> TRUE, df |-> df]
          ELSE [raised |-> FALSE,
                df |-> SetColumn(df, transform.output_col, results.values)]
  ELSE [raised |-> FALSE, df |-> df]

\* transformation_step letting the exception out of execute
transformation_step_Uncaught(state, transform, now) ==
  IF state.raised THEN state
  ELSE LET step == apply_single_transformation(state.df, transform, now)
       IN IF step.raised
          THEN [state EXCEPT !.raised = TRUE]
          ELSE [state EXCEPT !.df = step.df]

\* _apply_transformations lines 64-67, one pass of the loop: state is the
\* working table, self.warnings, and whether an exception is propagating
transformation_step(state, transform, now) ==
  IF state.raised THEN state
  ELSE LET step == apply_single_transformation(state.df, transform, now)
       IN IF step.raised
          THEN [state EXCEPT !.warnings = Append(@, transform.id)]
          ELSE [state EXCEPT !.df = step.df]

\* _apply_transformations: the loop from transformation k on
RECURSIVE apply_transformations_from(_, _, _, _)
apply_transformations_from(state, transformations, k, now) ==
  IF k > Len(transformations) THEN state
  ELSE apply_transformations_from(
         transformation_step(state, transformations[k], now),
         transformations, k + 1, now)

apply_transformations(state, p, now) ==
  apply_transformations_from(state, p.transformations, 1, now)

\* _apply_single_enrichment line 160-165
func_map(api_service) ==
  IF api_service \in {"postal_code_lookup", "pincode_lookup"}
  THEN "LOOKUP_PINCODE" ELSE api_service

\* x.get(col_lower, x.get(col, "")) on the dict lookup_pincode returns
DictGet(x, col) ==
  IF col = "city" THEN x.city
  ELSE IF col = "state" THEN x.state
  ELSE IF col = "country" THEN x.country
  ELSE ""

\* _apply_single_enrichment lines 174-178: the loop from target column k on
RECURSIVE expand_results(_, _, _, _)
expand_results(df, results, target_cols, k) ==
  IF k > Len(target_cols) THEN df
  ELSE expand_results(
         SetColumn(df, target_cols[k],
                   [i \in 1..Len(results) |-> DictGet(results[i], target_cols[k])]),
         results, target_cols, k + 1)

\* _apply_single_enrichment
apply_single_enrichment(df, enrichment, now) ==
  IF enrichment.trigger_col \notin ColumnNames(df)
  THEN [raised |-> FALSE, df |-> df]
  ELSE LET func_name == func_map(enrichment.api_service)
           values == Series(df, enrichment.trigger_col)
       IN IF func_name \notin RegisteredFunctions /\ values # <<>>
          THEN [raised |-> TRUE, df |-> df]
          ELSE [raised |-> FALSE,
                df |-> expand_results(
                         df,
                         [i \in 1..Len(values) |->
                            IF func_name = "LOOKUP_PINCODE"
                            THEN lookup_pincode(values[i])
                            ELSE [city |-> "", state |-> "", country |-> ""]],
                         enrichment.target_cols, 1)]

\* _apply_enrichments: the loop from enrichment k on
RECURSIVE apply_enrichments_from(_, _, _, _)
apply_enrichments_from(state, enrichments, k, now) ==
  IF k > Len(enrichments) \/ state.raised THEN state
  ELSE LET step == apply_single_enrichment(state.df, enrichments[k], now)
       IN apply_enrichments_from(
            IF step.raised
            THEN [state EXCEPT !.warnings = Append(@, enrichments[k].id)]
            ELSE [state EXCEPT !.df = step.df],
            enrichments, k + 1, now)

apply_enrichments(state, p, now) ==
  apply_enrichments_from(state, p.enrichments, 1, now)

\* _apply_column_mappings lines 191-210, one pass of the loop
mapping_step(target_df, df, mapping) ==
  LET source_col == mapping.source_col
      target_col == mapping.target_col
  IN IF mapping.action = "skip" THEN target_df
     ELSE IF mapping.action = "direct"
     THEN IF source_col \in ColumnNames(df)
          THEN SetColumn(target_df, target_col, Series(df, source_col))
          ELSE IF target_col \in ColumnNames(df)
          THEN SetColumn(target_df, target_col, Series(df, target_col))
          ELSE target_df
     ELSE IF mapping.action = "transform"
     THEN IF target_col \in ColumnNames(df)
          THEN SetColumn(target_df, target_col, Series(df, target_col))
          ELSE IF source_col \in ColumnNames(df)
          THEN SetColumn(target_df, target_col, Series(df, source_col))
          ELSE target_df
     ELSE target_df

\* _apply_column_mappings lines 190-210: the loop from mapping k on
RECURSIVE map_columns_from(_, _, _, _)
map_columns_from(target_df, df, column_mappings, k) ==
  IF k > Len(column_mappings) THEN target_df
  ELSE map_columns_from(mapping_step(target_df, df, column_mappings[k]),
                        df, column_mappings, k + 1)

\* _apply_column_mappings lines 213-220: the columns enrichments created,
\* from column k of df on
RECURSIVE include_enriched_from(_, _, _, _)
include_enriched_from(target_df, df, p, k) ==
  IF k > Len(df.columns) THEN target_df
  ELSE LET col == df.columns[k].name
           mapping_targets == {p.column_mappings[i].target_col :
                                 i \in 1..Len(p.column_mappings)}
           enriched == \E e \in 1..Len(p.enrichments) :
                         \E c \in 1..Len(p.enrichments[e].target_cols) :
                           p.enrichments[e].target_cols[c] = col
       IN include_enriched_from(
            IF col \notin mapping_targets /\ col \notin ColumnNames(target_df)
               /\ enriched
            THEN SetColumn(target_df, col, df.columns[k].values)
            ELSE target_df,
            df, p, k + 1)

\* _apply_column_mappings
apply_column_mappings(df, p) ==
  LET target_df == include_enriched_from(
                     map_columns_from(NewFrame, df, p.column_mappings, 1),
                     df, p, 1)
  IN IF ~empty(target_df) THEN target_df ELSE df

\* ExecutionEngine.execute at time now: errors and warnings are reset, the
\* steps work on df.copy()
execute(df, p, now) ==
  LET copied == [df |-> df, warnings |-> <<>>, raised |-> FALSE]
      transformed == apply_transformations(copied, p, now)
      enriched == apply_enrichments(transformed, p, now)
  IN [raised |-> enriched.raised,
      result_df |-> IF enriched.raised THEN NewFrame
                    ELSE apply_column_mappings(enriched.df, p),
      errors |-> <<>>,
      warnings |-> enriched.warnings]

\* the tables execute is run on: no row, or one row
Tables ==
  {[index |-> 0,
    columns |-> <<[name |-> "name", values |-> <<>>],
                  [name |-> "notes", values |-> <<>>]>>]}
  \cup {[index |-> 1,
         columns |-> <<[name |-> "name", values |-> <<v>>],
                       [name |-> "notes", values |-> <<"note">>]>>] :
          v \in {"Acme", "now"}}

\* the plans execute is run on
TransformationIds == <<"t1", "t2", "t3", "t4">>
TransformationChoices ==
  [function : {"LOWERCASE", "SMART_DATE_PARSE", "NO_SUCH_FUNCTION"},
   input_col : {"name"},
   input_cols : {<<>>},
   output_col : {None, "full_name"},
   params : {NoParams}]
MappingChoices ==
  [source_col : {"name"}, target_col : {"full_name"},
   action : {"direct", "transform", "skip"}]
  \cup [source_col : {"notes"}, target_col : {"notes"},
        action : {"direct", "transform", "skip"}]
EnrichmentChoices ==
  {<<>>, <<[id |-> "e1", trigger_col |-> "name", target_cols |-> <<"city">>,
            api_service |-> "pincode_lookup"]>>}

\* transformations get their ids by position
WithIds(ts) ==
  [k \in 1..Len(ts) |-> [id |-> TransformationIds[k],
                         function |-> ts[k].function,
                         input_col |-> ts[k].input_col,
                         input_cols |-> ts[k].input_cols,
                         params |-> ts[k].params,
                         output_col |-> ts[k].output_col]]

EnginePlans ==
  UNION {{[transformations |-> WithIds(ts), enrichments |-> es,
           column_mappings |-> ms] :
            ts \in [1..n -> TransformationChoices],
            es \in EnrichmentChoices,
            ms \in SeqsUpTo(MappingChoices, MaxPlanSteps - n)} :
         n \in 0..MaxPlanSteps}

Instances == {1, 2}
NewEngine == [errors |-> <<>>, warnings |-> <<>>]

\* two ExecutionEngine instances are constructed
InitEngine ==
  /\ OrchestratorIdle
  /\ JobsIdle
  /\ PlannerIdle
  /\ AgentsIdle
  /\ table \in Tables
  /\ plan \in EnginePlans
  /\ engines = [i \in Instances |-> NewEngine]
  /\ clock = 0
  /\ outputs = <<>>

\* engine.execute(table, plan) on instance i: the first call on instance 1,
\* the second on the same instance or on instance 2
ExecuteCall(i) ==
  /\ Len(outputs) < 2
  /\ Len(outputs) = 0 => i = 1
  /\ LET returned == execute(table, plan, Times[clock + 1])
     IN /\ outputs' = Append(outputs, returned)
        /\ engines' = [engines EXCEPT ![i] = [errors |-> returned.errors,
                                              warnings |-> returned.warnings]]
  /\ clock' = clock + 1
  /\ UNCHANGED <<table, plan, orchestrator, shared_jobs, planner, agents>>

NextEngine == \E i \in Instances : ExecuteCall(i)

SpecEngine == InitEngine /\ [][NextEngine]_vars

\* the tables of two date columns execute is run on: one or two rows
DateCells == DateTexts \cup {"junk"}
DateTables ==
  UNION {{[index |-> n,
           columns |-> <<[name |-> "d1", values |-> d1],
                         [name |-> "d2", values |-> d2]>>] :
            d1 \in [1..n -> DateCells], d2 \in [1..n -> DateCells]} :
         n \in 1..2}

\* the plans with one COMPUTE_DATE_DIFF transformation: the second date is
\* named by input_cols, by params.date2_col, or not at all
DateDiffChoices ==
  [function : {"COMPUTE_DATE_DIFF"},
   input_col : {None, "d1"},
   input_cols : {<<>>, <<"d1", "d2">>},
   output_col : {"days"},
   params : {NoParams, [date2_col |-> "d2"]}]

DateDiffPlans ==
  {[transformations |-> WithIds(<<t>>), enrichments |-> <<>>,
    column_mappings |-> <<>>] : t \in DateDiffChoices}

\* two ExecutionEngine instances and a table of dates
InitDateDiff ==
  /\ OrchestratorIdle
  /\ JobsIdle
  /\ PlannerIdle
  /\ AgentsIdle
  /\ table \in DateTables
  /\ plan \in DateDiffPlans
  /\ engines = [i \in Instances |-> NewEngine]
  /\ clock = 0
  /\ outputs = <<>>

SpecDateDiff == InitDateDiff /\ [][NextEngine]_vars

\* ------------------------------------------- the Transformation Planner
\* A column name is the sequence of its characters.
\* str.lower()
lower(s) ==
  [i \in 1..Len(s) |-> IF s[i] = "A" THEN "a"
                       ELSE IF s[i] = "B" THEN "b"
                       ELSE s[i]]

\* str.replace(ch, "")
remove(s, ch) == SelectSeq(s, LAMBDA c : c # ch)

\* _create_fallback_plan line 244: the source name loses "_" and " "
source_name_of(column_name) == remove(remove(lower(column_name), "_"), " ")

\* _create_fallback_plan lines 245 and 247: target names and aliases lose "_"
target_name_of(name) == remove(lower(name), "_")

\* _create_fallback_plan line 247
names_match(source_col, target_col) ==
  LET source_name == source_name_of(source_col)
      target_name == target_name_of(target_col.name)
  IN \/ source_name = target_name
     \/ \E i \in 1..Len(target_col.common_source_names) :
          source_name = target_name_of(target_col.common_source_names[i])

\* _create_fallback_plan lines 242-254: the mappings from source column k on;
\* the inner loop stops at the first target column that matches
RECURSIVE fallback_mappings_from(_, _, _)
fallback_mappings_from(source_columns, target_columns, k) ==
  IF k > Len(source_columns) THEN <<>>
  ELSE LET matching == {t \in 1..Len(target_columns) :
                          names_match(source_columns[k], target_columns[t])}
           first == CHOOSE t \in matching : \A u \in matching : t <= u
       IN (IF matching = {} THEN <<>>
           ELSE <<[source_col |-> source_columns[k],
                   target_col |-> target_columns[first].name,
                   action |-> "direct"]>>)
          \o fallback_mappings_from(source_columns, target_columns, k + 1)

FallbackWarning == "AI planning failed - using basic name matching"

\* _create_fallback_plan; confidence_score in percent
create_fallback_plan(source_columns, target_columns) ==
  [confidence_score |-> 30,
   column_mappings |-> fallback_mappings_from(source_columns, target_columns, 1),
   warnings |-> <<FallbackWarning>>]

\* column names: "ab", "A_b", "a b", "c"
ColumnNameChoices ==
  {<<"a", "b">>, <<"A", "_", "b">>, <<"a", " ", "b">>, <<"c">>}

\* target columns: name "ab", "a b" or "c", no alias or the alias "A_b"
TargetColumnChoices ==
  [name : {<<"a", "b">>, <<"a", " ", "b">>, <<"c">>},
   common_source_names : {<<>>, <<<<"A", "_", "b">>>>}]

\* the columns of a schema have different names
DistinctNames(names) ==
  \A i, j \in 1..Len(names) : names[i] = names[j] => i = j

\* the planner is constructed; run is about to be called on two schemas
InitPlanner ==
  /\ OrchestratorIdle
  /\ JobsIdle
  /\ EngineIdle
  /\ AgentsIdle
  /\ source_schema \in {c \in SeqsUpTo(ColumnNameChoices, MaxColumns) :
                           DistinctNames(c)}
  /\ target_schema \in {c \in SeqsUpTo(TargetColumnChoices, MaxColumns) :
                           DistinctNames([i \in 1..Len(c) |-> c[i].name])}
  /\ planned = Absent

\* TransformationPlannerAgent.run lines 136-141 when the LLM call raises
\* (llm = "raises") or _parse_plan raises on its response (llm = "unparsable")
PlannerFallsBack ==
  /\ planned = Absent
  /\ \E llm \in {"raises", "unparsable"} :
       planned' = Some([llm |-> llm,
                        raised |-> FALSE,
                        plan |-> create_fallback_plan(source_schema,
                                                      target_schema)])
  /\ UNCHANGED <<source_schema, target_schema, orchestrator, shared_jobs, engine, agents>>

\* TransformationPlannerAgent.run lines 137-138 when the response parses:
\* the plan is the LLM's (its mappings are not modelled)
PlannerParses ==
  /\ planned = Absent
  /\ \E confidence_score \in Confidences :
       planned' = Some([llm |-> "parsed",
                        raised |-> FALSE,
                        plan |-> [confidence_score |-> confidence_score,
                                  column_mappings |-> <<>>,
                                  warnings |-> <<>>]])
  /\ UNCHANGED <<source_schema, target_schema, orchestrator, shared_jobs, engine, agents>>

NextPlanner == PlannerFallsBack \/ PlannerParses

SpecPlanner == InitPlanner /\ [][NextPlanner]_vars

\* ------------------------------------------------ the Table Matching Agent
\* the orchestrator, its jobs, the engine and the planner stay as constructed
pipeline == <<orchestrator, shared_jobs, engine, planner>>
PipelineIdle == OrchestratorIdle /\ JobsIdle /\ EngineIdle /\ PlannerIdle

\* the characters [a-z0-9] of the names used here
Alphanumeric == {"a", "b", "c", "d"}

\* _normalize_column_name: lowercase, then only [a-z0-9] is kept
normalize_column_name(name) ==
  SelectSeq(lower(name), LAMBDA ch : ch \in Alphanumeric)

\* Python's "a in b" on strings
IsSubstring(a, b) ==
  \E i \in 0..(Len(b) - Len(a)) : SubSeq(b, i + 1, i + Len(a)) = a

Max(a, b) == IF a >= b THEN a ELSE b

\* Steps 3 to 5 of _calculate_column_match_score (lines 214-232) are read
\* from names and sample values through SequenceMatcher, the inferred type
\* and the keyword overlap.  They give 0.9 * ratio with ratio < 1 for names
\* that differ, 0.7 or 0.5, and 0.3 + 0.6 * overlap: at most 0.9.  Their
\* maximum is an input here, in percent.
OtherScores == {0, 90}

\* step 2, lines 205-212: 95 at the first alias equal to the source name,
\* else 80 if some alias before it (or any, if none is equal) contains the
\* source name or is contained in it
RECURSIVE common_names_score(_, _, _, _)
common_names_score(source_norm, common_source_names, k, score) ==
  IF k > Len(common_source_names) THEN [score |-> score, returned |-> FALSE]
  ELSE LET common_norm == normalize_column_name(common_source_names[k])
       IN IF source_norm = common_norm THEN [score |-> 95, returned |-> TRUE]
          ELSE common_names_score(source_norm, common_source_names, k + 1,
                 IF IsSubstring(common_norm, source_norm)
                    \/ IsSubstring(source_norm, common_norm)
                 THEN Max(score, 80) ELSE score)

\* calculate_column_match_score without the exact match of lines 200-202
calculate_column_match_score_NoExactMatch(source_col, target_col, common_source_names, other) ==
  LET source_norm == normalize_column_name(source_col)
      common == common_names_score(source_norm, common_source_names, 1, 0)
  IN IF common.returned THEN common.score
     ELSE Max(common.score, other)

\* _calculate_column_match_score, in percent; other is the result of steps
\* 3 to 5
calculate_column_match_score(source_col, target_col, common_source_names, other) ==
  LET source_norm == normalize_column_name(source_col)
      target_norm == normalize_column_name(target_col)
      common == common_names_score(source_norm, common_source_names, 1, 0)
  IN IF source_norm = target_norm THEN 100
     ELSE IF common.returned THEN common.score
     ELSE Max(common.score, other)

ModerateMatchThreshold == 40

\* target_matched_set
target_matched_set(matched) == {matched[i][2] : i \in 1..Len(matched)}

\* _match_table_to_schema lines 121-138: the target the source column gets,
\* 0 if none; other[t] is the result of steps 3 to 5 against target t.  The
\* comparison is strict, so the first of the best targets wins.
best_match(source_col, columns, matched, other) ==
  LET free == {t \in 1..Len(columns) :
                 columns[t].name \notin target_matched_set(matched)}
      score(t) == calculate_column_match_score(
                    source_col, columns[t].name,
                    columns[t].common_source_names, other[t])
      best == {t \in free : /\ score(t) > 0
                           /\ \A u \in free : score(u) <= score(t)}
  IN IF best = {} THEN [target |-> 0, score |-> 0]
     ELSE LET first == CHOOSE t \in best : \A u \in best : t <= u
          IN [target |-> first, score |-> score(first)]

\* _match_table_to_schema lines 150-182, scores in percent (rounded down)
table_match_of(schema, names, matched) ==
  LET total_target == Len(schema.columns)
      matched_count == Len(matched)
      required_matched ==
        Cardinality({t \in 1..Len(schema.columns) :
                       /\ schema.columns[t].required
                       /\ schema.columns[t].name \in target_matched_set(matched)})
      required_total == Len(schema.required_columns)
      required_score ==
        IF required_total > 0 THEN (100 * required_matched) \div required_total
        ELSE 100
      optional_matched_count == matched_count - required_matched
      optional_total == total_target - required_total
      optional_score ==
        IF optional_total > 0
        THEN (100 * optional_matched_count) \div optional_total
        ELSE 100
  IN [required_score |-> required_score,
      optional_score |-> optional_score,
      match_score |-> (60 * required_score + 40 * optional_score) \div 100,
      matched_columns |-> matched,
      unmatched_target_cols |->
        SelectSeq([t \in 1..Len(schema.columns) |-> schema.columns[t]],
                  LAMBDA col : col.required
                               /\ col.name \notin target_matched_set(matched))]

\* source column names: "ab", "A_b", "c", "d"
SourceNameChoices == {<<"a", "b">>, <<"A", "_", "b">>, <<"c">>, <<"d">>}

\* target columns: "ab", "c" or "d", required or not; "ab" with no alias or
\* with the alias "c"
MatchColumnChoices ==
  {col \in [name : {<<"a", "b">>, <<"c">>, <<"d">>},
            required : BOOLEAN,
            common_source_names : {<<>>, <<<<"c">>>>}] :
     col.common_source_names # <<>> => col.name = <<"a", "b">>}

\* TargetSchema as the schemas of src/src/schemas are written:
\* required_columns lists the columns flagged required, and no two columns
\* have the same name
SchemaOf(columns) ==
  [columns |-> columns,
   required_columns |->
     LET required == SelectSeq(columns, LAMBDA col : col.required)
     IN [i \in 1..Len(required) |-> required[i].name]]

\* _match_table_to_schema is about to be called on a table and a schema
InitMatcher ==
  /\ PipelineIdle
  /\ DetectorIdle
  /\ RegistryIdle
  /\ \E columns \in SeqsUpTo(MatchColumnChoices, MaxColumns) :
       /\ DistinctNames([i \in 1..Len(columns) |-> columns[i].name])
       /\ match_schema = SchemaOf(columns)
  /\ column_names \in SeqsUpTo(SourceNameChoices, MaxColumns)
  /\ cursor = 1
  /\ matched_columns = <<>>
  /\ table_match = Absent

\* _match_table_to_schema lines 120-143: one round of the first pass
MatchColumn ==
  /\ cursor \in 1..Len(column_names)
  /\ \E other \in [1..Len(match_schema.columns) -> OtherScores] :
       LET source_col == column_names[cursor]
           best == best_match(source_col, match_schema.columns,
                              matched_columns, other)
       IN matched_columns' =
            IF best.target # 0 /\ best.score >= ModerateMatchThreshold
            THEN Append(matched_columns,
                        <<source_col, match_schema.columns[best.target].name>>)
            ELSE matched_columns
  /\ cursor' = cursor + 1
  /\ UNCHANGED <<match_schema, column_names, table_match, pipeline, detector, registry>>

\* _match_table_to_schema lines 145-182, after the first pass
ReturnMatch ==
  /\ cursor = Len(column_names) + 1
  /\ table_match = Absent
  /\ table_match' = Some(table_match_of(match_schema, column_names,
                                        matched_columns))
  /\ UNCHANGED <<match_schema, column_names, cursor, matched_columns, pipeline, detector, registry>>

NextMatcher == MatchColumn \/ ReturnMatch

SpecMatcher == InitMatcher /\ [][NextMatcher]_vars

\* ----------------------------------------------- the Table Detection Agent
\* The raw sheet is a DataFrame read with header=None and dtype=str: a list
\* of rows of cells, a cell being NaN or a text.  Rows and columns are
\* numbered from 0 as in the code.
NaN == "nan"
cell(df, r, c) == df[r + 1][c + 1]
len(df) == Len(df)
width(df) == IF df = <<>> THEN 0 ELSE Len(df[1])

MIN_TABLE_ROWS_Three == 3
MIN_TABLE_ROWS == 2
MIN_TABLE_COLS == 2

\* the confidence of a table cut out between empty columns, as 0.75
SplitConfidence_Low == 75
\* DetectedTable confidences of _find_horizontal_tables, in percent
SplitConfidence == 85
WholeConfidence == 90
\* run line 110
HeuristicThreshold == 80

\* _find_vertical_tables lines 199-202: the row has no text
is_empty_row(df, r) == \A c \in 0..(width(df) - 1) : cell(df, r, c) = NaN

\* the column has no text in rows lo..hi
is_empty_col(df, c, lo, hi) == \A r \in lo..hi : cell(df, r, c) = NaN

\* the increasing list of the numbers of a set
RECURSIVE tolist(_)
tolist(S) ==
  IF S = {} THEN <<>>
  ELSE LET least == CHOOSE x \in S : \A y \in S : x <= y
       IN <<least>> \o tolist(S \ {least})

\* _get_data_column_range on the rows lo..hi of df
get_data_column_range(df, lo, hi) ==
  LET col_indices == {c \in 0..(width(df) - 1) : ~is_empty_col(df, c, lo, hi)}
  IN IF col_indices = {} THEN <<0, 0>>
     ELSE <<CHOOSE c \in col_indices : \A d \in col_indices : c <= d,
            CHOOSE c \in col_indices : \A d \in col_indices : c >= d>>

TableBoundary(start_row, end_row, start_col, end_col) ==
  [start_row |-> start_row, end_row |-> end_row,
   start_col |-> start_col, end_col |-> end_col]

\* _find_vertical_tables lines 210-222 and 227-237: the block of the rows
\* start_row..end_row-1, if it is large enough
block_boundary(df, start_row, end_row) ==
  IF end_row - start_row >= MIN_TABLE_ROWS
  THEN LET col_range == get_data_column_range(df, start_row, end_row - 1)
       IN IF col_range[2] - col_range[1] + 1 >= MIN_TABLE_COLS
          THEN <<TableBoundary(start_row, end_row - 1, col_range[1], col_range[2])>>
          ELSE <<>>
  ELSE <<>>

\* _find_vertical_tables lines 208-224: the blocks ending at the empty rows
\* k, k+1, ...; start_row is one past the empty row before
RECURSIVE blocks_from(_, _, _)
blocks_from(df, empty_row_indices, k) ==
  IF k > Len(empty_row_indices) THEN <<>>
  ELSE LET start_row == IF k = 1 THEN 0 ELSE empty_row_indices[k - 1] + 1
       IN block_boundary(df, start_row, empty_row_indices[k])
          \o blocks_from(df, empty_row_indices, k + 1)

\* _find_vertical_tables
find_vertical_tables(df) ==
  LET empty_row_indices == tolist({r \in 0..(len(df) - 1) : is_empty_row(df, r)})
      start_row == IF empty_row_indices = <<>> THEN 0
                   ELSE empty_row_indices[Len(empty_row_indices)] + 1
      boundaries == blocks_from(df, empty_row_indices, 1)
                    \o block_boundary(df, start_row, len(df))
  IN IF boundaries = <<>> THEN block_boundary(df, 0, len(df))
     ELSE boundaries

DetectedTable(boundary, confidence) ==
  [boundary |-> boundary, confidence |-> confidence]

\* _find_horizontal_tables lines 281-295: the segments ending at the empty
\* columns k, k+1, ...
RECURSIVE segments_from(_, _, _)
segments_from(row_boundary, empty_col_indices, k) ==
  IF k > Len(empty_col_indices) THEN <<>>
  ELSE LET start_col == IF k = 1 THEN row_boundary.start_col
                        ELSE empty_col_indices[k - 1] + 1
           end_col == empty_col_indices[k]
       IN (IF end_col - start_col >= MIN_TABLE_COLS
           THEN <<DetectedTable(TableBoundary(row_boundary.start_row,
                                              row_boundary.end_row,
                                              start_col, end_col - 1),
                                SplitConfidence)>>
           ELSE <<>>)
          \o segments_from(row_boundary, empty_col_indices, k + 1)

\* _find_horizontal_tables
find_horizontal_tables(df, row_boundary) ==
  LET empty_col_indices ==
        tolist({c \in 0..(width(df) - 1) :
                  is_empty_col(df, c, row_boundary.start_row, row_boundary.end_row)})
      start_col == IF empty_col_indices = <<>> THEN row_boundary.start_col
                   ELSE empty_col_indices[Len(empty_col_indices)] + 1
  IN IF empty_col_indices = <<>>
     THEN <<DetectedTable(row_boundary, WholeConfidence)>>
     ELSE segments_from(row_boundary, empty_col_indices, 1)
          \o (IF row_boundary.end_col - start_col + 1 >= MIN_TABLE_COLS
              THEN <<DetectedTable(TableBoundary(row_boundary.start_row,
                                                 row_boundary.end_row,
                                                 start_col, row_boundary.end_col),
                                   SplitConfidence)>>
              ELSE <<>>)

\* _heuristic_detection lines 176-181 (ids and headers are not modelled)
RECURSIVE horizontal_from(_, _, _)
horizontal_from(df, row_tables, k) ==
  IF k > Len(row_tables) THEN <<>>
  ELSE find_horizontal_tables(df, row_tables[k])
       \o horizontal_from(df, row_tables, k + 1)

heuristic_detection(df) == horizontal_from(df, find_vertical_tables(df), 1)

\* _boundaries_overlap
boundaries_overlap(b1, b2) ==
  /\ ~(b1.end_row < b2.start_row \/ b2.end_row < b1.start_row)
  /\ ~(b1.end_col < b2.start_col \/ b2.end_col < b1.start_col)

\* _merge_detections lines 477-507 for the AI tables k, k+1, ...: the first
\* heuristic table an AI table overlaps gains 0.1, and an AI table that
\* overlaps none is added if its confidence is above 0.7
RECURSIVE merge_from(_, _, _, _)
merge_from(heuristic, added, ai_tables, k) ==
  IF k > Len(ai_tables) THEN heuristic \o added
  ELSE LET ai_table == ai_tables[k]
           hits == {i \in 1..Len(heuristic) :
                      boundaries_overlap(heuristic[i].boundary, ai_table.boundary)}
           first == CHOOSE i \in hits : \A j \in hits : i <= j
       IN IF hits # {}
          THEN merge_from([heuristic EXCEPT ![first].confidence =
                             IF @ + 10 < 100 THEN @ + 10 ELSE 100],
                          added, ai_tables, k + 1)
          ELSE merge_from(heuristic,
                          IF ai_table.confidence > 70
                          THEN Append(added, ai_table) ELSE added,
                          ai_tables, k + 1)

merge_detections(heuristic, ai_result) == merge_from(heuristic, <<>>, ai_result, 1)

\* _ai_detection lines 436-441: the tables of the response, none if the call
\* raises
ai_detection(response) == IF response.raises THEN <<>> ELSE response.tables

\* TableDetectionAgent.run lines 106-117 on the loaded sheet; response is
\* what the LLM would answer, llm_calls the number of calls made, and
\* heuristic_tables what _heuristic_detection returned
detector_run(raw_df, response) ==
  LET heuristic_tables == heuristic_detection(raw_df)
  IN IF /\ heuristic_tables # <<>>
        /\ \A i \in 1..Len(heuristic_tables) :
             heuristic_tables[i].confidence >= HeuristicThreshold
     THEN [heuristic_tables |-> heuristic_tables,
           tables |-> heuristic_tables,
           detection_method |-> "heuristic",
           llm_calls |-> 0]
     ELSE [heuristic_tables |-> heuristic_tables,
           tables |-> merge_detections(heuristic_tables, ai_detection(response)),
           detection_method |-> "hybrid",
           llm_calls |-> 1]

\* the rows of a sheet of three columns
RowChoices ==
  {<<NaN, NaN, NaN>>, <<"x", "x", NaN>>, <<NaN, "x", "x">>,
   <<"x", "x", "x">>, <<"x", NaN, "x">>}

\* what the LLM answers: the call raises, no table, or one table
Responses ==
  {[raises |-> TRUE, tables |-> <<>>], [raises |-> FALSE, tables |-> <<>>]}
    \cup {[raises |-> FALSE,
           tables |-> <<DetectedTable(TableBoundary(0, 1, 0, 1), confidence)>>] :
            confidence \in {60, 90}}

\* the sheet is loaded; run is about to detect its tables
InitDetector ==
  /\ PipelineIdle
  /\ MatcherIdle
  /\ RegistryIdle
  /\ sheet \in UNION {[1..n -> RowChoices] : n \in 1..MaxRows}
  /\ detection = Absent

\* TableDetectionAgent.run
Detect ==
  /\ detection = Absent
  /\ \E response \in Responses : detection' = Some(detector_run(sheet, response))
  /\ UNCHANGED <<sheet, pipeline, matcher, registry>>

NextDetector == Detect

SpecDetector == InitDetector /\ [][NextDetector]_vars

\* -------------------------------------------------- the Function Registry
\* A text is the sequence of its characters; a value is a text or null
\* (None, NaN).  What a function returns is one record for every type:
\* type is the Python type, text the str, dict the items of the dict as
\* <<key, text>> pairs, is_valid the entry of that name, number the float in
\* thousandths.
Null == [null |-> TRUE, text |-> <<>>]
Text(s) == [null |-> FALSE, text |-> s]

Returns(type, text, dict, is_valid, number) ==
  [raised |-> FALSE, type |-> type, text |-> text, dict |-> dict,
   is_valid |-> is_valid, number |-> number]
ReturnsStr(s) == Returns("str", s, {}, FALSE, 0)
ReturnsNone == Returns("NoneType", <<>>, {}, FALSE, 0)
ReturnsFloat(n) == Returns("float", <<>>, {}, FALSE, n)
ReturnsDict(items, is_valid) == Returns("dict", <<>>, items, is_valid, 0)
Raises == [raised |-> TRUE, type |-> "ValueError", text |-> <<>>, dict |-> {},
           is_valid |-> FALSE, number |-> 0]

Whitespace == {" ", "\t"}

\* str.strip()
RECURSIVE lstrip(_)
lstrip(s) ==
  IF s # <<>> /\ s[1] \in Whitespace THEN lstrip(Tail(s)) ELSE s
RECURSIVE rstrip(_)
rstrip(s) ==
  IF s # <<>> /\ s[Len(s)] \in Whitespace THEN rstrip(SubSeq(s, 1, Len(s) - 1))
  ELSE s
strip(s) == rstrip(lstrip(s))

\* str.split(delimiter) for a delimiter of one character
RECURSIVE split(_, _)
split(s, delimiter) ==
  LET at == {i \in 1..Len(s) : s[i] = delimiter}
      first == CHOOSE i \in at : \A j \in at : i <= j
  IN IF at = {} THEN <<s>>
     ELSE <<SubSeq(s, 1, first - 1)>>
          \o split(SubSeq(s, first + 1, Len(s)), delimiter)

\* str.replace(symbol, "")
RECURSIVE replace(_, _)
replace(s, symbol) ==
  LET n == Len(symbol)
      at == {i \in 1..(Len(s) - n + 1) : SubSeq(s, i, i + n - 1) = symbol}
      first == CHOOSE i \in at : \A j \in at : i <= j
  IN IF n = 0 \/ at = {} THEN s
     ELSE SubSeq(s, 1, first - 1)
          \o replace(SubSeq(s, first + n, Len(s)), symbol)

\* separator.join(parts)
RECURSIVE join(_, _)
join(separator, parts) ==
  IF parts = <<>> THEN <<>>
  ELSE IF Len(parts) = 1 THEN parts[1]
  ELSE parts[1] \o separator \o join(separator, Tail(parts))

\* str.upper() and str.title() on the letters used here
upper(s) ==
  [i \in 1..Len(s) |-> IF s[i] = "a" THEN "A"
                       ELSE IF s[i] = "b" THEN "B"
                       ELSE s[i]]
Letters == {"a", "b", "A", "B"}
title(s) ==
  [i \in 1..Len(s) |->
     IF i = 1 \/ s[i - 1] \notin Letters
     THEN upper(<<s[i]>>)[1] ELSE lower(<<s[i]>>)[1]]

NoName == {<<"first_name", <<>>>>, <<"middle_name", <<>>>>, <<"last_name", <<>>>>}
Name(first_name, middle_name, last_name) ==
  {<<"first_name", first_name>>, <<"middle_name", middle_name>>,
   <<"last_name", last_name>>}

\* split_full_name_at with the culture "eastern" as the default
split_full_name_at_Eastern(value, delimiter) ==
  LET pieces == split(value, delimiter)
      stripped == [i \in 1..Len(pieces) |-> strip(pieces[i])]
      parts == SelectSeq(stripped, LAMBDA p : p # <<>>)
  IN IF Len(parts) = 0 THEN ReturnsDict(NoName, FALSE)
     ELSE IF Len(parts) = 1 THEN ReturnsDict(Name(parts[1], <<>>, <<>>), FALSE)
     ELSE IF Len(parts) = 2 THEN ReturnsDict(Name(parts[2], <<>>, parts[1]), FALSE)
     ELSE ReturnsDict(Name(parts[Len(parts)],
                           join(<<" ">>, SubSeq(parts, 2, Len(parts) - 1)),
                           parts[1]), FALSE)

\* split_full_name lines 94-112 with the default params; the delimiter is
\* given
split_full_name_at(value, delimiter) ==
  LET pieces == split(value, delimiter)
      stripped == [i \in 1..Len(pieces) |-> strip(pieces[i])]
      parts == SelectSeq(stripped, LAMBDA p : p # <<>>)
  IN IF Len(parts) = 0 THEN ReturnsDict(NoName, FALSE)
     ELSE IF Len(parts) = 1 THEN ReturnsDict(Name(parts[1], <<>>, <<>>), FALSE)
     ELSE IF Len(parts) = 2 THEN ReturnsDict(Name(parts[1], <<>>, parts[2]), FALSE)
     ELSE ReturnsDict(Name(parts[1],
                           join(<<" ">>, SubSeq(parts, 2, Len(parts) - 1)),
                           parts[Len(parts)]), FALSE)

\* FunctionRegistry.split_full_name with params {}
split_full_name(value) ==
  IF value.null THEN ReturnsDict(NoName, FALSE)
  ELSE IF strip(value.text) = <<>> THEN ReturnsDict(NoName, FALSE)
  ELSE LET s == strip(value.text)
       IN split_full_name_at(s, IF \E i \in 1..Len(s) : s[i] = ","
                                THEN "," ELSE " ")

\* FunctionRegistry.regex_extract with params {}: the pattern is ""
regex_extract(value) ==
  IF value.null THEN ReturnsStr(<<>>) ELSE ReturnsStr(value.text)

\* re.sub(r'\s+', ' ', s)
RECURSIVE collapse(_)
collapse(s) ==
  IF s = <<>> THEN <<>>
  ELSE IF s[1] \in Whitespace
       THEN <<" ">> \o collapse(lstrip(s))
       ELSE <<s[1]>> \o collapse(Tail(s))

\* FunctionRegistry.clean_whitespace
clean_whitespace(value) ==
  IF value.null THEN ReturnsStr(<<>>) ELSE ReturnsStr(collapse(strip(value.text)))

\* FunctionRegistry.uppercase, .titlecase, .trim; lowercase on a text
uppercase(value) ==
  IF value.null THEN ReturnsStr(<<>>) ELSE ReturnsStr(upper(value.text))
lowercase_text(value) ==
  IF value.null THEN ReturnsStr(<<>>) ELSE ReturnsStr(lower(value.text))
titlecase(value) ==
  IF value.null THEN ReturnsStr(<<>>) ELSE ReturnsStr(title(value.text))
trim(value) ==
  IF value.null THEN ReturnsStr(<<>>) ELSE ReturnsStr(strip(value.text))

\* concatenate keeping the null values of the list
concatenate_KeepsNull(value) ==
  IF value.null THEN ReturnsStr(<<"N", "o", "n", "e">>)
  ELSE ReturnsStr(strip(value.text))

\* FunctionRegistry.concatenate with params {} and no values keyword: the
\* list is [value], and a null entry is left out
concatenate(value) ==
  LET str_values == IF value.null THEN <<>> ELSE <<strip(value.text)>>
  IN ReturnsStr(join(<<" ">>, str_values))

\* FunctionRegistry.map_values with params {}: no default, no mapping
map_values(value) ==
  IF value.null THEN ReturnsStr(<<>>) ELSE ReturnsStr(value.text)

\* FunctionRegistry.conditional_fill with params {} and no row; a value that
\* is not blank is returned as it is
conditional_fill(value) ==
  IF value.null \/ strip(value.text) = <<>> THEN ReturnsStr(<<>>)
  ELSE ReturnsStr(value.text)

\* The functions below are modelled for a null value only.
EmptyValue == <<"E", "m", "p", "t", "y", " ", "v", "a", "l", "u", "e">>
\* FunctionRegistry.smart_date_parse line 246
smart_date_parse_null(value) == CASE value.null -> ReturnsNone
\* FunctionRegistry.format_date line 302
format_date(value) == CASE value.null -> ReturnsStr(<<>>)
\* FunctionRegistry.compute_date_diff line 211
compute_date_diff_null(value) == CASE value.null -> ReturnsNone
\* FunctionRegistry.lookup_pincode line 404
lookup_pincode_null(value) ==
  CASE value.null ->
    ReturnsDict({<<"city", <<>>>>, <<"state", <<>>>>, <<"country", <<>>>>}, FALSE)
\* FunctionRegistry.validate_gstin lines 437-441
validate_gstin(value) ==
  CASE value.null ->
    ReturnsDict({<<"state_code", <<>>>>, <<"pan", <<>>>>, <<"error", EmptyValue>>},
                FALSE)
\* FunctionRegistry.validate_email lines 463-467
validate_email(value) ==
  CASE value.null ->
    ReturnsDict({<<"normalized", <<>>>>, <<"error", EmptyValue>>}, FALSE)
\* FunctionRegistry.normalize_phone line 489
normalize_phone(value) == CASE value.null -> ReturnsStr(<<>>)

\* the characters that stand for the currency signs
Euro == "EUR_SIGN"
Pound == "GBP_SIGN"
Yen == "JPY_SIGN"
Rupee == "INR_SIGN"

\* normalize_currency line 334, in the order of the list
symbols ==
  << <<"$">>, <<Euro>>, <<Pound>>, <<Yen>>, <<Rupee>>, <<"R", "s">>,
     <<"R", "s", ".">>, <<"I", "N", "R">>, <<"U", "S", "D">>,
     <<"E", "U", "R">> >>

\* normalize_currency lines 335-336
RECURSIVE remove_symbols(_, _, _)
remove_symbols(value_str, list, k) ==
  IF k > Len(list) THEN value_str
  ELSE remove_symbols(replace(value_str, list[k]), list, k + 1)

Digits == <<"0", "1", "2", "3", "4", "5", "6", "7", "8", "9">>
IsDigit(ch) == \E d \in 1..10 : Digits[d] = ch
DigitValue(ch) == (CHOOSE d \in 1..10 : Digits[d] = ch) - 1

RECURSIVE int_of(_)
int_of(s) ==
  IF s = <<>> THEN 0
  ELSE 10 * int_of(SubSeq(s, 1, Len(s) - 1)) + DigitValue(s[Len(s)])

\* float(value_str) for a plain decimal: an optional sign, digits with at
\* most one point, one digit at least; ok is FALSE where float raises
\* ValueError.  The value is in thousandths (digits after the third are 0
\* in the texts used here).
float(value_str) ==
  LET negative == value_str # <<>> /\ value_str[1] = "-"
      signed == value_str # <<>> /\ value_str[1] \in {"-", "+"}
      body == IF signed THEN Tail(value_str) ELSE value_str
      points == {i \in 1..Len(body) : body[i] = "."}
      point == IF points = {} THEN Len(body) + 1 ELSE CHOOSE i \in points : TRUE
      whole == SubSeq(body, 1, point - 1)
      fraction == SubSeq(body, point + 1, Len(body))
      thousandths == SubSeq(fraction \o <<"0", "0", "0">>, 1, 3)
      ok == /\ Cardinality(points) <= 1
            /\ \A i \in 1..Len(body) : i \in points \/ IsDigit(body[i])
            /\ Len(whole) + Len(fraction) >= 1
      magnitude == 1000 * int_of(whole) + int_of(thousandths)
  IN [ok |-> ok,
      number |-> IF ~ok THEN 0 ELSE IF negative THEN 0 - magnitude ELSE magnitude]

\* FunctionRegistry.normalize_currency
normalize_currency(value) ==
  IF value.null THEN ReturnsNone
  ELSE IF strip(value.text) = <<>> THEN ReturnsNone
  ELSE LET bare == remove_symbols(strip(value.text), symbols, 1)
           plain == strip(replace(replace(bare, <<",">>), <<" ">>))
           value_str == IF /\ plain # <<>>
                           /\ plain[1] = "("
                           /\ plain[Len(plain)] = ")"
                        THEN <<"-">> \o SubSeq(plain, 2, Len(plain) - 1)
                        ELSE plain
       IN IF float(value_str).ok THEN ReturnsFloat(float(value_str).number)
          ELSE ReturnsNone

\* _register_all_functions
FunctionNames ==
  {"SPLIT_FULL_NAME", "REGEX_EXTRACT", "CLEAN_WHITESPACE", "SMART_DATE_PARSE",
   "FORMAT_DATE", "NORMALIZE_CURRENCY", "MAP_VALUES", "CONDITIONAL_FILL",
   "LOOKUP_PINCODE", "VALIDATE_GSTIN", "VALIDATE_EMAIL", "NORMALIZE_PHONE",
   "UPPERCASE", "LOWERCASE", "TITLECASE", "TRIM", "CONCATENATE",
   "COMPUTE_DATE_DIFF"}

\* name.upper() for the names used here
name_upper(name) ==
  IF name = "split_full_name" THEN "SPLIT_FULL_NAME" ELSE name

\* FunctionRegistry.execute(name, value, {})
registry_call(name, value) ==
  LET func == name_upper(name)
  IN IF func \notin FunctionNames THEN Raises
     ELSE CASE func = "SPLIT_FULL_NAME" -> split_full_name(value)
            [] func = "REGEX_EXTRACT" -> regex_extract(value)
            [] func = "CLEAN_WHITESPACE" -> clean_whitespace(value)
            [] func = "SMART_DATE_PARSE" -> smart_date_parse_null(value)
            [] func = "FORMAT_DATE" -> format_date(value)
            [] func = "NORMALIZE_CURRENCY" -> normalize_currency(value)
            [] func = "MAP_VALUES" -> map_values(value)
            [] func = "CONDITIONAL_FILL" -> conditional_fill(value)
            [] func = "LOOKUP_PINCODE" -> lookup_pincode_null(value)
            [] func = "VALIDATE_GSTIN" -> validate_gstin(value)
            [] func = "VALIDATE_EMAIL" -> validate_email(value)
            [] func = "NORMALIZE_PHONE" -> normalize_phone(value)
            [] func = "UPPERCASE" -> uppercase(value)
            [] func = "LOWERCASE" -> lowercase_text(value)
            [] func = "TITLECASE" -> titlecase(value)
            [] func = "TRIM" -> trim(value)
            [] func = "CONCATENATE" -> concatenate(value)
            [] func = "COMPUTE_DATE_DIFF" -> compute_date_diff_null(value)

\* the functions modelled on every text
TextFunctions ==
  {"SPLIT_FULL_NAME", "split_full_name", "REGEX_EXTRACT", "CLEAN_WHITESPACE",
   "MAP_VALUES", "CONDITIONAL_FILL", "UPPERCASE", "LOWERCASE", "TITLECASE",
   "TRIM", "CONCATENATE"}

\* texts of up to MaxLen characters
NameCharacters == {"a", "B", " ", ",", "\t"}
NameTexts == UNION {[1..n -> NameCharacters] : n \in 0..MaxLen}

\* amounts: "25,000", "500", "2.5"
Amounts ==
  {<<"2", "5", ",", "0", "0", "0">>, <<"5", "0", "0">>, <<"2", ".", "5">>}

\* an amount after a currency symbol (or none), with or without a space in
\* between, and an amount in parentheses
CurrencyTexts ==
  {symbols[k] \o gap \o amount :
     k \in 1..Len(symbols), gap \in {<<>>, <<" ">>}, amount \in Amounts}
    \cup {gap \o amount : gap \in {<<>>, <<" ">>}, amount \in Amounts}
    \cup {<<"(">> \o amount \o <<")">> : amount \in Amounts}

\* the calls execute(name, value, {}) made here
Calls ==
  [name : FunctionNames \cup {"split_full_name", "NO_SUCH_FUNCTION"},
   value : {Null}]
    \cup [name : TextFunctions \cup {"NO_SUCH_FUNCTION"},
          value : {Text(s) : s \in NameTexts}]
    \cup [name : {"NORMALIZE_CURRENCY"},
          value : {Text(s) : s \in CurrencyTexts}]

\* the registry is constructed; execute is about to be called
InitRegistry ==
  /\ PipelineIdle
  /\ MatcherIdle
  /\ DetectorIdle
  /\ call \in Calls
  /\ outcome = Absent

\* FunctionRegistry.execute
RegistryExecute ==
  /\ outcome = Absent
  /\ outcome' = Some(registry_call(call.name, call.value))
  /\ UNCHANGED <<call, pipeline, matcher, detector>>

NextRegistry == RegistryExecute

SpecRegistry == InitRegistry /\ [][NextRegistry]_vars

\* ------------------------------------------------------------ properties
Terminal == {COMPLETED, FAILED}
Suspended == {SELECTING_TABLE, WAITING_FOR_INPUT}
HostCalls == {"run_job", "answer_question", "select_table"}

\* a call of run_job, answer_question or select_table has returned
Returned == pc = "idle" /\ caller \in HostCalls

\* C1: once a job is COMPLETED or FAILED, a call of run_job, answer_question
\* or select_table made on it changes no field of the job.
C1_TerminalJobIsFrozen ==
  [][(caller' \in HostCalls /\ entry_status' \in Terminal) => job' = job]_vars

\* C2: when run_job, answer_question or select_table returns, get_job yields
\* a job with the status of the returned job.
C2_ReturnedJobIsStored ==
  Returned => from_dict(stored).status = job.status

\* the plan the planner has just returned is a low-confidence one
LowConfidencePlanReturned ==
  /\ pc = "plan"
  /\ job'.status # FAILED
  /\ LowConfidence(job')

\* the Execution Engine or the validation stage is about to run on the plan
RunsOnPlan == pc \in {"stage_execute", "execute",
                      "stage_validate_and_output", "validate_and_output"}

\* C3 (as stated): a plan with confidence_score < 0.5 never reaches the
\* engine or the validation stage, and after PLANNING the job goes to the
\* fallback, also when the plan sets requires_user_input.
C3_LowConfidenceGoesToFallback ==
  /\ [](RunsOnPlan => ~LowConfidence(job))
  /\ [][LowConfidencePlanReturned => pc' = "stage_fallback_execution"]_vars

\* C3 (amended): a plan with confidence_score < 0.5 never reaches the engine
\* or the validation stage; after PLANNING the job goes to the fallback,
\* unless the plan sets requires_user_input: then run_job returns the job
\* WAITING_FOR_INPUT.
C3_LowConfidenceNeverExecuted ==
  /\ [](RunsOnPlan => ~LowConfidence(job))
  /\ [][LowConfidencePlanReturned =>
          IF job'.transformation_plan[1].requires_user_input
          THEN pc' = "idle" /\ job'.status = WAITING_FOR_INPUT
          ELSE pc' = "stage_fallback_execution"]_vars

\* a low-confidence plan without questions is handed to the fallback
C3_Witness ==
  /\ pc = "stage_fallback_execution"
  /\ job.status = PLANNING
  /\ LowConfidence(job)
  /\ ~job.transformation_plan[1].requires_user_input

\* the execution stage has given up
ExecutionExhausted == job.status = FAILED /\ job.error_message = ErrExecution

\* C4: an execution stage that keeps raising is re-invoked until retry_count
\* reaches max_retries (1 + max_retries attempts for a fresh job), retry_count
\* never exceeds max_retries, and the job then enters the fallback.
C4_RetriesThenFallback ==
  /\ job.retry_count <= job.max_retries
  /\ ExecutionExhausted =>
       /\ job.retry_count = job.max_retries
       /\ obs.attempts = 1 + job.max_retries - obs.retry_at_entry
       /\ pc = "stage_fallback_execution"

\* a fresh job whose engine raised 1 + max_retries times enters the fallback
C4_Witness ==
  /\ ExecutionExhausted
  /\ obs.retry_at_entry = 0
  /\ obs.attempts = 1 + MaxRetries
  /\ pc = "stage_fallback_execution"

\* C5: after the fallback ran, the job is COMPLETED only when the script
\* exited 0 and the expected output file exists; otherwise it is FAILED with
\* an error_message.
C5_FallbackOutcome ==
  (Returned /\ obs.fallback # "not_run") =>
     IF obs.fallback = "ok"
     THEN job.status = COMPLETED
     ELSE job.status = FAILED /\ job.error_message # None

\* C6: when the planning stage raised, the returned job is FAILED only if
\* the fallback failed too, and COMPLETED if the fallback succeeded.
C6_PlanningFailureIsRescued ==
  (Returned /\ obs.planning = "raised") =>
     /\ job.status = FAILED =>
          obs.fallback \in {"raised", "script_failed", "no_output"}
     /\ obs.fallback = "ok" => job.status = COMPLETED
     /\ job.status \in Terminal

\* the planner raised and the fallback script wrote the output
C6_Witness ==
  /\ Returned
  /\ obs.planning = "raised"
  /\ obs.fallback = "ok"
  /\ job.status = COMPLETED

\* C7: when the planner returned a plan with requires_user_input, run_job
\* returns the job WAITING_FOR_INPUT with pending_questions non-empty and
\* transformation_plan set.
C7_WaitingJobHasQuestions ==
  (/\ Returned
   /\ obs.planning = "returned"
   /\ job.transformation_plan # Absent
   /\ job.transformation_plan[1].requires_user_input) =>
     /\ job.status = WAITING_FOR_INPUT
     /\ job.pending_questions # <<>>

\* pending questions that have no answer in user_answers
Unanswered(j) ==
  {i \in 1..Len(j.pending_questions) :
     ~\E p \in j.user_answers : p[1] = j.pending_questions[i]}

\* C8: once the answers given through answer_question made it re-run the
\* pipeline, the job is not left in WAITING_FOR_INPUT on questions that all
\* have an answer.
C8_NotStuckWaiting ==
  (/\ pc = "idle"
   /\ caller = "answer_question"
   /\ entry_status = WAITING_FOR_INPUT
   /\ obs.planning = "returned"
   /\ job.pending_questions # <<>>
   /\ job.status = WAITING_FOR_INPUT) => Unanswered(job) # {}

\* C9: the status of a suspended job changes only in a call of
\* answer_question or select_table.
C9_SuspendedJobNeedsAnswer ==
  [][(/\ job.status \in Suspended
      /\ job'.status # job.status
      /\ caller' # "get_job") =>
        caller' \in {"answer_question", "select_table"}]_vars

\* the edges of the job state machine
Edges ==
  {<<PENDING, DETECTING_TABLES>>,
   <<DETECTING_TABLES, SELECTING_TABLE>>, <<DETECTING_TABLES, ANALYZING>>,
   <<SELECTING_TABLE, ANALYZING>>,
   <<ANALYZING, PLANNING>>,
   <<PLANNING, WAITING_FOR_INPUT>>, <<PLANNING, EXECUTING>>,
   <<WAITING_FOR_INPUT, DETECTING_TABLES>>,
   <<EXECUTING, VALIDATING>>, <<EXECUTING, COMPLETED>>,
   <<VALIDATING, COMPLETED>>}
  \cup {<<s, FAILED>> : s \in JobStatus \ Terminal}

\* C10: every change of a job's status made by a call on a job that was not
\* yet COMPLETED or FAILED follows an edge of the state machine.
C10_StatusFollowsEdges ==
  [][(/\ job'.status # job.status
      /\ caller' \in HostCalls
      /\ entry_status' \notin Terminal) =>
        <<job.status, job'.status>> \in Edges]_vars

\* C11-C14 are stated on Spec: the single job

\* the tables of the job's multi_table_analysis
DetectedTables(j) ==
  IF j.multi_table_analysis = Absent THEN <<>> ELSE j.multi_table_analysis[1]

\* the positions in the matcher's result whose score is at least 0.7
GoodPositions(matches) ==
  {i \in 1..Len(matches) : matches[i].match_score >= HighMatchThreshold}

\* the stage has selected table id and run_job goes on to the analysis
SelectedAndGoesOn(id) ==
  /\ job'.selected_table_id = id
  /\ job'.status = DETECTING_TABLES
  /\ pc' = "stage_analyze"

ValidSelections(tables) ==
  {DigitStrings[k + 1] : k \in 1..Len(tables)}
    \cup {tables[k] : k \in 1..Len(tables)}

\* select_table is called (directly or through answer_question) on a job in
\* SELECTING_TABLE with a selection that names no detected table
InvalidSelectionMade ==
  /\ pc = "idle"
  /\ calls' # calls
  /\ caller' \in {"select_table", "answer_question"}
  /\ job.status = SELECTING_TABLE
  /\ obs'.selection # None
  /\ obs'.selection \notin ValidSelections(DetectedTables(job))

DataModelFields ==
  {"status", "source_analysis", "transformation_plan", "validation_report",
   "output_file", "selected_table_id", "multi_table_analysis",
   "table_matching_result", "pending_questions", "user_answers",
   "error_message", "retry_count"}

\* C14: whenever the job is saved, the job get_job rebuilds from the job file
\* equals the saved job on every field of the data model.
C14_SavedJobRoundTrips ==
  [][stored' # stored =>
       \A f \in DataModelFields : from_dict(stored')[f] = job'[f]]_vars

\* the job that run_job returns for job id when no other job is run: the
\* fallback finds the expected output exactly when its own script wrote it
RunAlone(id) ==
  IF script[id].generated
  THEN AfterScript(jobs[id], script[id].returncode, script[id].writes)
  ELSE jobs[id]

\* the job that wrote the file at path
WrittenBy(path) == {f[2] : f \in {g \in output_dir : g[1] = path}}

\* C15: a job whose run_job was interleaved with the run_job of other jobs
\* ends with the status and output_file it has when run alone, and its
\* output_file holds what its own run wrote.
C15_JobsDoNotInterfere ==
  \A id \in JobIds :
    run[id] = "done" =>
      /\ jobs[id].status = RunAlone(id).status
      /\ jobs[id].output_file = RunAlone(id).output_file
      /\ jobs[id].output_file # None => WrittenBy(jobs[id].output_file) = {id}

\* C16-C19 are stated on SpecEngine: execute on one (table, plan) pair

\* C16: execute run twice on the same (table, plan) pair, on the same engine
\* instance or on two instances, returns identical output tables, and no run
\* modifies the input table.
C16_ExecuteIsReplayable ==
  /\ [](\A i, j \in 1..Len(outputs) :
          outputs[i].result_df = outputs[j].result_df)
  /\ [][table' = table]_vars

\* the column mappings of the plan with the given action
MappingsWith(action) ==
  {k \in 1..Len(plan.column_mappings) : plan.column_mappings[k].action = action}

\* C17: in every output of execute, a "direct" mapping whose source_col is a
\* column of the input table has its target_col as a column holding the
\* values of the input table's source_col.
C17_DirectMappingCopiesSource ==
  \A r \in 1..Len(outputs) : \A k \in MappingsWith("direct") :
    LET mapping == plan.column_mappings[k]
    IN mapping.source_col \in ColumnNames(table) =>
         /\ mapping.target_col \in ColumnNames(outputs[r].result_df)
         /\ Series(outputs[r].result_df, mapping.target_col)
              = Series(table, mapping.source_col)

\* the target columns some mapping other than a skip asks for
MappedTargets ==
  {plan.column_mappings[k].target_col :
     k \in MappingsWith("direct") \cup MappingsWith("transform")}

\* C18: in every output of execute, the target_col of a "skip" mapping (that
\* no other mapping asks for) is not a column.
C18_SkippedTargetIsAbsent ==
  \A r \in 1..Len(outputs) : \A k \in MappingsWith("skip") :
    plan.column_mappings[k].target_col \notin MappedTargets =>
      plan.column_mappings[k].target_col
        \notin ColumnNames(outputs[r].result_df)

\* a transformation whose function is not registered raises on the first row
RaisesOn(transform, df) ==
  /\ transform.function \notin RegisteredFunctions
  /\ transform.input_col \in ColumnNames(df)
  /\ df.index > 0

\* the plan without its raising transformations
WithoutRaising(p, df) ==
  [p EXCEPT !.transformations =
     SelectSeq(@, LAMBDA transform : ~RaisesOn(transform, df))]

RaisingTransformations ==
  {k \in 1..Len(plan.transformations) : RaisesOn(plan.transformations[k], table)}

\* C19: when transformations of the plan raise, execute does not raise, has
\* one warning for each of them, and returns the table the plan without
\* them gives: every other transformation, enrichment and mapping is applied
\* and the raising ones leave no output.
C19_RaisingTransformationIsSkipped ==
  \A r \in 1..Len(outputs) :
    RaisingTransformations # {} =>
      /\ ~outputs[r].raised
      /\ Len(outputs[r].warnings) = Cardinality(RaisingTransformations)
      /\ \A k \in RaisingTransformations :
           \E w \in 1..Len(outputs[r].warnings) :
             outputs[r].warnings[w] = plan.transformations[k].id
      /\ outputs[r].result_df
           = execute(table, WithoutRaising(plan, table), Times[r]).result_df

\* an unregistered function first, then LOWERCASE, an enrichment and a
\* mapping: one warning, and the later steps show in the output
C19_Witness ==
  /\ Len(outputs) >= 1
  /\ table.index = 1
  /\ Series(table, "name") = <<"Acme">>
  /\ Len(plan.transformations) = 2
  /\ plan.transformations[1].function = "NO_SUCH_FUNCTION"
  /\ plan.transformations[2].function = "LOWERCASE"
  /\ plan.transformations[2].output_col = "full_name"
  /\ plan.enrichments # <<>>
  /\ MappingsWith("transform") # {}
  /\ ~outputs[1].raised
  /\ outputs[1].warnings = <<"t1">>
  /\ ColumnNames(outputs[1].result_df) = {"full_name", "city"}
  /\ Series(outputs[1].result_df, "full_name") = <<"acme">>

\* C20 is stated on SpecPlanner: run on one pair of schemas

\* a name after lowercasing and stripping underscores and spaces
Normalised(name) ==
  SelectSeq(lower(name), LAMBDA c : c \notin {"_", " "})

\* the source column equals a target column's name or alias, both normalised
HasTarget(column_name) ==
  \E t \in 1..Len(target_schema) :
    \/ Normalised(column_name) = Normalised(target_schema[t].name)
    \/ \E i \in 1..Len(target_schema[t].common_source_names) :
         Normalised(column_name)
           = Normalised(target_schema[t].common_source_names[i])

\* the mappings of the returned plan that read the source column
MappingsOf(column_name) ==
  {k \in 1..Len(planned[1].plan.column_mappings) :
     planned[1].plan.column_mappings[k].source_col = column_name}

\* C20: when the LLM call raises or its response does not parse, run does
\* not raise and returns a plan with confidence_score 0.3, a warning, and
\* exactly one mapping, a direct one, for each source column that equals a
\* target column's name or alias after normalising both (and none for the
\* other source columns).
C20_FallbackPlanMatchesNames ==
  (planned # Absent /\ planned[1].llm \in {"raises", "unparsable"}) =>
     /\ ~planned[1].raised
     /\ planned[1].plan.confidence_score = 30
     /\ planned[1].plan.warnings # <<>>
     /\ \A k \in 1..Len(planned[1].plan.column_mappings) :
          planned[1].plan.column_mappings[k].action = "direct"
     /\ \A s \in 1..Len(source_schema) :
          Cardinality(MappingsOf(source_schema[s]))
            = IF HasTarget(source_schema[s]) THEN 1 ELSE 0

\* C21 is stated on SpecMatcher: one table matched to one schema

\* the required target columns
RequiredNames ==
  {match_schema.columns[t].name :
     t \in {u \in 1..Len(match_schema.columns) : match_schema.columns[u].required}}

\* the table has a column named exactly as each required target column
HasEveryRequiredName ==
  \A name \in RequiredNames : \E i \in 1..Len(column_names) : column_names[i] = name

\* C21: a table whose column names include a name exactly equal to each
\* required target column name gets required_score 1.0 and a match_score of
\* at least 0.6, whatever its other columns, their order and the coverage of
\* the optional columns.
C21_RequiredNamesScoreFull ==
  (table_match # Absent /\ HasEveryRequiredName) =>
     /\ table_match[1].required_score = 100
     /\ table_match[1].match_score >= 60
     /\ table_match[1].unmatched_target_cols = <<>>

\* a required column was taken by a column of another name standing before
\* the column of that name, next to an optional column nobody matched
C21_Witness ==
  /\ table_match # Absent
  /\ HasEveryRequiredName
  /\ RequiredNames # {}
  /\ table_match[1].optional_score = 0
  /\ table_match[1].match_score = 60
  /\ \E i \in 1..Len(matched_columns) :
       /\ matched_columns[i][2] \in RequiredNames
       /\ matched_columns[i][1] # matched_columns[i][2]

\* C22 and C30 are stated on SpecDetector: run on one sheet

\* the rows lo..hi are a maximal run of rows with text
IsBlock(lo, hi) ==
  /\ lo <= hi
  /\ \A r \in lo..hi : ~is_empty_row(sheet, r)
  /\ lo = 0 \/ is_empty_row(sheet, lo - 1)
  /\ hi = len(sheet) - 1 \/ is_empty_row(sheet, hi + 1)

Blocks ==
  {b \in (0..(len(sheet) - 1)) \X (0..(len(sheet) - 1)) : IsBlock(b[1], b[2])}

\* the block is a table of at least 2 rows and 2 columns: its columns are
\* next to each other and each holds some text
IsTable(b) ==
  LET columns == {c \in 0..(width(sheet) - 1) : ~is_empty_col(sheet, c, b[1], b[2])}
  IN /\ b[2] - b[1] + 1 >= 2
     /\ Cardinality(columns) >= 2
     /\ \A c, d \in columns : \A e \in c..d : e \in columns

\* the sheet holds two tables, exactly 2 empty rows apart, and nothing else
TwoTables ==
  /\ Cardinality(Blocks) = 2
  /\ \A b \in Blocks : IsTable(b)
  /\ \E b1, b2 \in Blocks : b2[1] = b1[2] + 3

RowsOf(t) == t.boundary.start_row..t.boundary.end_row

C30_HeuristicTablesAreFinal ==
  detection # Absent =>
     /\ detection[1].heuristic_tables # <<>> =>
          /\ detection[1].llm_calls = 0
          /\ detection[1].detection_method = "heuristic"
          /\ detection[1].tables = detection[1].heuristic_tables
     /\ detection[1].llm_calls > 0 => detection[1].heuristic_tables = <<>>

\* a table cut out between empty columns, at confidence 0.85, is final
C30_Witness ==
  /\ detection # Absent
  /\ detection[1].heuristic_tables # <<>>
  /\ \E i \in 1..Len(detection[1].heuristic_tables) :
       detection[1].heuristic_tables[i].confidence = SplitConfidence
  /\ detection[1].llm_calls = 0

\* C23, C24 and C25 are stated on SpecRegistry: one call of execute

Executed(name) == outcome # Absent /\ name_upper(call.name) = name

StringFunctions ==
  {"REGEX_EXTRACT", "CLEAN_WHITESPACE", "FORMAT_DATE", "MAP_VALUES",
   "CONDITIONAL_FILL", "NORMALIZE_PHONE", "UPPERCASE", "LOWERCASE",
   "TITLECASE", "TRIM", "CONCATENATE"}
NoneFunctions == {"NORMALIZE_CURRENCY", "SMART_DATE_PARSE", "COMPUTE_DATE_DIFF"}
DictFunctions == {"SPLIT_FULL_NAME", "LOOKUP_PINCODE"}
Validators == {"VALIDATE_GSTIN", "VALIDATE_EMAIL"}

\* C23: execute with a null value and empty params returns the function's
\* empty sentinel without raising, for every registered function: "" for
\* the string functions, None for NORMALIZE_CURRENCY, SMART_DATE_PARSE and
\* COMPUTE_DATE_DIFF, a dict of empty strings for SPLIT_FULL_NAME and
\* LOOKUP_PINCODE, is_valid False for the validators; it raises only for a
\* name that is not registered.
C23_NullGivesTheEmptySentinel ==
  (outcome # Absent /\ call.value.null) =>
     LET name == name_upper(call.name)
         r == outcome[1]
     IN /\ r.raised <=> name \notin
             (StringFunctions \cup NoneFunctions \cup DictFunctions \cup Validators)
        /\ name \in StringFunctions => r.type = "str" /\ r.text = <<>>
        /\ name \in NoneFunctions => r.type = "NoneType"
        /\ name \in DictFunctions =>
             /\ r.type = "dict"
             /\ r.dict # {}
             /\ \A item \in r.dict : item[2] = <<>>
        /\ name \in Validators => r.type = "dict" /\ ~r.is_valid

\* CONCATENATE was called on a null value and returned ""
C23_Witness ==
  /\ Executed("CONCATENATE")
  /\ call.value.null
  /\ ~outcome[1].raised
  /\ outcome[1].type = "str"
  /\ outcome[1].text = <<>>

\* S.split(): the words between runs of whitespace
RECURSIVE words(_)
words(s) ==
  LET t == lstrip(s)
      stops == {i \in 1..Len(t) : t[i] \in Whitespace}
      stop == IF stops = {} THEN Len(t) + 1
              ELSE CHOOSE i \in stops : \A j \in stops : i <= j
  IN IF t = <<>> THEN <<>>
     ELSE <<SubSeq(t, 1, stop - 1)>> \o words(SubSeq(t, stop, Len(t)))

Count(s, chars) == Cardinality({i \in 1..Len(s) : s[i] \in chars})
Entry(r, key) == (CHOOSE item \in r.dict : item[1] = key)[2]

\* C24 as claimed: for every non-empty S with exactly one space,
\* SPLIT_FULL_NAME(S) returns first_name = S.split()[0], last_name =
\* S.split()[1] and middle_name = ""; for every S with no space it returns
\* last_name = "".  (Where S.split() has no second word the first half says
\* nothing.)
C24_SplitsAtTheSpace ==
  (Executed("SPLIT_FULL_NAME") /\ ~call.value.null /\ call.value.text # <<>>) =>
     LET S == call.value.text
         r == outcome[1]
     IN /\ (Count(S, {" "}) = 1 /\ Len(words(S)) >= 2) =>
             /\ Entry(r, "first_name") = words(S)[1]
             /\ Entry(r, "last_name") = words(S)[2]
             /\ Entry(r, "middle_name") = <<>>
        /\ Count(S, {" "}) = 0 => Entry(r, "last_name") = <<>>

\* C24 amended: for every S without a comma whose only whitespace is one
\* space, neither first nor last, SPLIT_FULL_NAME(S) returns first_name =
\* S.split()[0], last_name = S.split()[1] and middle_name = ""; for every
\* non-empty S with no space and no comma it returns last_name = "".
C24_SplitsAtTheSpaceWithoutComma ==
  (Executed("SPLIT_FULL_NAME") /\ ~call.value.null /\ call.value.text # <<>>
     /\ Count(call.value.text, {","}) = 0) =>
     LET S == call.value.text
         r == outcome[1]
     IN /\ (/\ Count(S, Whitespace) = 1
            /\ Count(S, {" "}) = 1
            /\ S[1] # " "
            /\ S[Len(S)] # " ") =>
             /\ Len(words(S)) = 2
             /\ Entry(r, "first_name") = words(S)[1]
             /\ Entry(r, "last_name") = words(S)[2]
             /\ Entry(r, "middle_name") = <<>>
        /\ Count(S, {" "}) = 0 => Entry(r, "last_name") = <<>>

\* "a B" was split into "a" and "B"
C24_Witness ==
  /\ Executed("SPLIT_FULL_NAME")
  /\ call.value = Text(<<"a", " ", "B">>)
  /\ Entry(outcome[1], "first_name") = <<"a">>
  /\ Entry(outcome[1], "last_name") = <<"B">>
  /\ Entry(outcome[1], "middle_name") = <<>>

\* the amounts in thousandths
AmountValue(amount) ==
  IF amount = <<"2", "5", ",", "0", "0", "0">> THEN 25000000
  ELSE IF amount = <<"5", "0", "0">> THEN 500000
  ELSE 2500

\* C25: NORMALIZE_CURRENCY on an amount written with thousands separators
\* after any one of the currency symbols and codes returns the value of the
\* amount, and on an amount in parentheses its negative: "Rs.25,000" gives
\* 25000.0 and "(500)" gives -500.0.
C25_CurrencySymbolIsRemoved ==
  (Executed("NORMALIZE_CURRENCY") /\ ~call.value.null) =>
     /\ \A k \in 1..Len(symbols), gap \in {<<>>, <<" ">>}, amount \in Amounts :
          call.value.text = symbols[k] \o gap \o amount =>
            /\ outcome[1].type = "float"
            /\ outcome[1].number = AmountValue(amount)
     /\ \A amount \in Amounts :
          call.value.text = <<"(">> \o amount \o <<")">> =>
            /\ outcome[1].type = "float"
            /\ outcome[1].number = 0 - AmountValue(amount)

\* C26 is stated on SpecAnswers: answer_question on a job that waits for input

\* answer_question is called on a job in WAITING_FOR_INPUT
AnswerGiven ==
  /\ pc = "idle"
  /\ calls' # calls
  /\ caller' = "answer_question"
  /\ job.status = WAITING_FOR_INPUT

\* C26: answer_question re-runs the pipeline only when every question in
\* pending_questions has an answer in user_answers; until then the job stays
\* WAITING_FOR_INPUT with pending_questions unchanged, also in a second round
\* of questions.
C26_RerunsWhenEveryQuestionIsAnswered ==
  [][(AnswerGiven
        /\ Unanswered([job EXCEPT !.user_answers = job'.user_answers]) # {}) =>
       /\ pc' = "idle"
       /\ job'.status = WAITING_FOR_INPUT
       /\ job'.pending_questions = job.pending_questions]_vars

\* C28 is stated on Spec: select_table on a job that waits for a selection

\* _generate_selection_prompt lines 319-330: the tables the prompt lists,
\* numbered from 1 in the order of good_matches
PromptOptions(j) ==
  LET good == get_good_matches(j.table_matching_result[1])
  IN [k \in 1..Len(good) |-> good[k].table_id]

\* select_table is called (directly or through answer_question) on a job in
\* SELECTING_TABLE
SelectionMade ==
  /\ pc = "idle"
  /\ calls' # calls
  /\ caller' \in {"select_table", "answer_question"}
  /\ job.status = SELECTING_TABLE
  /\ job.table_matching_result # Absent
  /\ obs'.selection # None

\* C28: in select_table the 1-indexed ordinal k selects the table that the
\* prompt in pending_questions lists as option k, and only a table offered in
\* the prompt can be selected.
C28_OrdinalSelectsPromptOption ==
  [][SelectionMade =>
       LET options == PromptOptions(job)
           selection == obs'.selection
       IN /\ (ParsesAsInt(selection) /\ ParseInt(selection) \in 1..Len(options)) =>
               job'.selected_table_id = options[ParseInt(selection)]
          /\ job'.selected_table_id # None =>
               \E k \in 1..Len(options) : options[k] = job'.selected_table_id]_vars

\* C29: in every state reachable through run_job, answer_question and
\* select_table, a job whose status is COMPLETED has error_message null.
C29_CompletedJobHasNoError ==
  job.status = COMPLETED => job.error_message = None

\* C27 is stated on SpecDateDiff: execute on a table of two date columns

\* the plan declares COMPUTE_DATE_DIFF with input_cols = [d1, d2]
DeclaredWithInputCols(transform) ==
  /\ transform.function = "COMPUTE_DATE_DIFF"
  /\ transform.input_col = None
  /\ transform.input_cols = <<"d1", "d2">>
  /\ transform.output_col # None

\* C27: a COMPUTE_DATE_DIFF transformation declared with input_cols =
\* [d1, d2] and an output_col writes, for every row where both dates parse,
\* (d1 - d2) in whole days, and null where a date fails to parse.
C27_DateDiffOfInputCols ==
  \A k \in 1..Len(outputs) :
    LET transform == plan.transformations[1]
        result_df == outputs[k].result_df
    IN DeclaredWithInputCols(transform) =>
         /\ transform.output_col \in ColumnNames(result_df)
         /\ \A i \in 1..table.index :
              LET d1 == Series(table, "d1")[i]
                  d2 == Series(table, "d2")[i]
              IN Series(result_df, transform.output_col)[i] =
                   IF d1 \in DateTexts /\ d2 \in DateTexts
                   THEN days(d1, d2) ELSE None
====
